---- MODULE Spec2Model ----
(***************************************************************************)
(* Lexical-borrowings corpus pipeline: seed generators, seed merge, noise  *)
(* filters, the clean stage and the pipeline runner.                       *)
(*                                                                         *)
(* A Python str is a sequence of characters; a character is a one-symbol   *)
(* string.  ASCII characters stand for themselves; a non-ASCII character   *)
(* is written by name ("gr_kappa", "a_acute").                             *)
(***************************************************************************)
EXTENDS Integers, Sequences, FiniteSets, TLC

VARIABLES
  \* one call of BorrowingGenerator.generate_for_root
  gen_lang, gen_root, H,
  \* run_generation: config.ALL_ROOTS, the seeds collected, the position
  roots, all_seeds, gen_pc,
  \* one call of EnglishFilter.is_english
  arg_sentence, eng_pc, is_english_ret,
  \* one call of SemanticFilter.is_false_positive
  arg_entry, sem_pc, is_false_positive_ret,
  \* MiningCleaner.clean_file: its locals, the next line, the position
  kept, dropped_eng, dropped_sem, line_no, clean_pc,
  \* __main__: args.step, the position, the stages entered, the diagnostic
  \* messages printed, the search calls issued
  step, main_pc, entered, stdout, searches,
  \* the files of the data directory
  wiktionary_file, seeds_file, mined_file, clean_file,
  \* WikipediaMiner.search_and_extract: seeds_df, the row and title under way,
  \* the titles the search returned, results, the network calls made so far,
  \* the position
  seeds_df, seed_idx, found_titles, title_idx, results, calls, miner_pc,
  \* one call of WikipediaMiner._get_sentences
  arg_text, arg_term, get_sentences_ret, sent_pc,
  \* a stage run twice: which run is under way, what the first run left
  run_no, first_run,
  \* one entry written with json.dumps and read back with json.loads
  arg_obj, json_line, json_back, json_pc

callVars == <<gen_lang, gen_root, H>>
genRunVars == <<roots, all_seeds, gen_pc>>
engVars == <<arg_sentence, eng_pc, is_english_ret>>
semVars == <<arg_entry, sem_pc, is_false_positive_ret>>
cleanRunVars == <<kept, dropped_eng, dropped_sem, line_no, clean_pc>>
mainVars == <<step, main_pc, entered, stdout, searches>>
fileVars == <<wiktionary_file, seeds_file, mined_file, clean_file>>
minerVars == <<seeds_df, seed_idx, found_titles, title_idx, results, calls, miner_pc>>
sentVars == <<arg_text, arg_term, get_sentences_ret, sent_pc>>
rerunVars == <<run_no, first_run>>
jsonVars == <<arg_obj, json_line, json_back, json_pc>>
otherVars == <<minerVars, sentVars, rerunVars, jsonVars>>
vars == <<callVars, genRunVars, engVars, semVars, cleanRunVars, mainVars, fileVars, otherVars>>

----------------------------------------------------------------------------
\* a file of the data directory: absent, or present with its lines or rows
Absent == [exists |-> FALSE, content |-> <<>>]
File(content) == [exists |-> TRUE, content |-> content]

\* a write that adds to what the file holds (mode 'a')
AppendFile(old, content) == File(old.content \o content)

\* open(path, 'w') and DataFrame.to_csv(path): what the file held is gone
WriteFile(old, content) == File(content)

None == "NONE"

(* Python str operations *)

LOWER_AZ ==
  <<"a", "b", "c", "d", "e", "f", "g", "h", "i", "j", "k", "l", "m",
    "n", "o", "p", "q", "r", "s", "t", "u", "v", "w", "x", "y", "z">>
UPPER_AZ ==
  <<"A", "B", "C", "D", "E", "F", "G", "H", "I", "J", "K", "L", "M",
    "N", "O", "P", "Q", "R", "S", "T", "U", "V", "W", "X", "Y", "Z">>

Range(s) == { s[i] : i \in DOMAIN s }

AZ == Range(LOWER_AZ)
VOWELS == {"a", "e", "i", "o", "u"}

\* str.lower() of one character
LowerChar(c) ==
  IF \E i \in DOMAIN UPPER_AZ : UPPER_AZ[i] = c
  THEN LOWER_AZ[CHOOSE i \in DOMAIN UPPER_AZ : UPPER_AZ[i] = c]
  ELSE c

\* str.lower()
Lower(s) == [i \in DOMAIN s |-> LowerChar(s[i])]

\* s[a:b] with 0-based a, b, both within 0..len(s)
Slice(s, a, b) == IF b <= a THEN <<>> ELSE SubSeq(s, a + 1, b)

\* s.startswith(p)
StartsWith(s, p) == Len(p) <= Len(s) /\ SubSeq(s, 1, Len(p)) = p

\* s.endswith(p)
EndsWith(s, p) == Len(p) <= Len(s) /\ SubSeq(s, Len(s) - Len(p) + 1, Len(s)) = p

\* sub in s
Contains(s, sub) ==
  \E i \in 1..(Len(s) - Len(sub) + 1) : SubSeq(s, i, i + Len(sub) - 1) = sub

\* s.replace(old, new), old non-empty: leftmost non-overlapping occurrences
RECURSIVE Replace(_, _, _)
Replace(s, old, new) ==
  IF Len(s) < Len(old) THEN s
  ELSE IF SubSeq(s, 1, Len(old)) = old
       THEN new \o Replace(SubSeq(s, Len(old) + 1, Len(s)), old, new)
       ELSE <<s[1]>> \o Replace(Tail(s), old, new)

\* sequence concatenation of a sequence of sequences
RECURSIVE Flatten(_)
Flatten(ss) == IF ss = <<>> THEN <<>> ELSE Head(ss) \o Flatten(Tail(ss))

----------------------------------------------------------------------------
(* src/config.py *)

V_ROOTS ==
  <<
    <<"c", "l", "i", "c", "k">>,
    <<"p", "o", "s", "t">>,
    <<"c", "h", "a", "t">>,
    <<"l", "i", "n", "k">>,
    <<"t", "a", "g">>,
    <<"t", "w", "e", "e", "t">>,
    <<"s", "c", "a", "n">>,
    <<"f", "o", "r", "m", "a", "t">>,
    <<"h", "a", "c", "k">>,
    <<"b", "a", "n">>,
    <<"l", "o", "g">>,
    <<"r", "e", "s", "e", "t">>,
    <<"d", "o", "w", "n", "l", "o", "a", "d">>,
    <<"s", "t", "r", "e", "a", "m">>,
    <<"l", "i", "k", "e">>,
    <<"s", "c", "r", "o", "l", "l">>,
    <<"u", "p", "d", "a", "t", "e">>,
    <<"f", "o", "r", "w", "a", "r", "d">>,
    <<"s", "p", "a", "m">>,
    <<"c", "h", "e", "c", "k">>,
    <<"s", "p", "o", "i", "l", "e", "r">>,
    <<"t", "r", "o", "l", "l">> >>

N_ROOTS ==
  <<
    <<"b", "u", "g">>,
    <<"s", "e", "r", "v", "e", "r">>,
    <<"c", "l", "o", "u", "d">>,
    <<"s", "o", "f", "t", "w", "a", "r", "e">>,
    <<"h", "a", "r", "d", "w", "a", "r", "e">>,
    <<"o", "n", "l", "i", "n", "e">>,
    <<"i", "n", "t", "e", "r", "f", "a", "c", "e">>,
    <<"u", "s", "e", "r">>,
    <<"b", "o", "t">>,
    <<"a", "p", "p">>,
    <<"p", "i", "x", "e", "l">> >>

ALL_ROOTS == V_ROOTS \o N_ROOTS

GREEK_TRANSLITERATION ==
  {
    <<<<"c", "l", "i", "c", "k">>, <<"gr_kappa", "gr_lamda", "gr_iota", "gr_kappa">>>>,
    <<<<"p", "o", "s", "t">>, <<"gr_pi", "gr_omicron", "gr_sigma", "gr_tau">>>>,
    <<<<"c", "h", "a", "t">>, <<"gr_tau", "gr_sigma", "gr_alpha", "gr_tau">>>>,
    <<<<"l", "i", "n", "k">>, <<"gr_lamda", "gr_iota", "gr_nu", "gr_kappa">>>>,
    <<<<"t", "a", "g">>, <<"gr_tau", "gr_alpha", "gr_gamma", "gr_kappa">>>>,
    <<<<"t", "w", "e", "e", "t">>, <<"gr_tau", "gr_omicron", "gr_upsilon", "gr_iota_tonos", "gr_tau">>>>,
    <<<<"s", "c", "a", "n">>, <<"gr_sigma", "gr_kappa", "gr_alpha", "gr_nu">>>>,
    <<<<"f", "o", "r", "m", "a", "t">>, <<"gr_phi", "gr_omicron", "gr_rho", "gr_mu", "gr_alpha_tonos", "gr_tau">>>>,
    <<<<"h", "a", "c", "k">>, <<"gr_chi", "gr_alpha", "gr_kappa">>>>,
    <<<<"b", "a", "n">>, <<"gr_mu", "gr_pi", "gr_alpha", "gr_nu">>>>,
    <<<<"l", "o", "g">>, <<"gr_lamda", "gr_omicron", "gr_gamma", "gr_kappa">>>>,
    <<<<"r", "e", "s", "e", "t">>, <<"gr_rho", "gr_iota", "gr_sigma", "gr_epsilon_tonos", "gr_tau">>>>,
    <<<<"d", "o", "w", "n", "l", "o", "a", "d">>, <<"gr_nu", "gr_tau", "gr_alpha", "gr_omicron", "gr_upsilon", "gr_nu", "gr_lamda", "gr_omicron_tonos", "gr_omicron", "gr_upsilon", "gr_nu", "gr_tau">>>>,
    <<<<"s", "t", "r", "e", "a", "m">>, <<"gr_sigma", "gr_tau", "gr_rho", "gr_iota", "gr_mu">>>>,
    <<<<"l", "i", "k", "e">>, <<"gr_lamda", "gr_alpha_tonos", "gr_iota", "gr_kappa">>>>,
    <<<<"s", "c", "r", "o", "l", "l">>, <<"gr_sigma", "gr_kappa", "gr_rho", "gr_omicron", "gr_lamda">>>>,
    <<<<"u", "p", "d", "a", "t", "e">>, <<"gr_alpha", "gr_pi", "gr_nu", "gr_tau", "gr_epsilon_tonos", "gr_iota", "gr_tau">>>>,
    <<<<"f", "o", "r", "w", "a", "r", "d">>, <<"gr_phi", "gr_omicron_tonos", "gr_rho", "gr_gamma", "gr_omicron", "gr_upsilon", "gr_omicron", "gr_rho", "gr_nu", "gr_tau">>>>,
    <<<<"s", "p", "a", "m">>, <<"gr_sigma", "gr_pi", "gr_alpha", "gr_mu">>>>,
    <<<<"c", "h", "e", "c", "k">>, <<"gr_tau", "gr_sigma", "gr_epsilon", "gr_kappa">>>>,
    <<<<"s", "p", "o", "i", "l", "e", "r">>, <<"gr_sigma", "gr_pi", "gr_omicron_tonos", "gr_iota", "gr_lamda", "gr_epsilon", "gr_rho">>>>,
    <<<<"p", "i", "x", "e", "l">>, <<"gr_pi", "gr_iota_tonos", "gr_xi", "gr_epsilon", "gr_lamda">>>>,
    <<<<"b", "u", "g">>, <<"gr_mu", "gr_pi", "gr_alpha", "gr_gamma", "gr_kappa">>>>,
    <<<<"s", "e", "r", "v", "e", "r">>, <<"gr_sigma", "gr_epsilon_tonos", "gr_rho", "gr_beta", "gr_epsilon", "gr_rho">>>>,
    <<<<"c", "l", "o", "u", "d">>, <<"gr_kappa", "gr_lamda", "gr_alpha_tonos", "gr_omicron", "gr_upsilon", "gr_nu", "gr_tau">>>>,
    <<<<"s", "o", "f", "t", "w", "a", "r", "e">>, <<"gr_sigma", "gr_omicron_tonos", "gr_phi", "gr_tau", "gr_gamma", "gr_omicron", "gr_upsilon", "gr_epsilon", "gr_rho">>>>,
    <<<<"h", "a", "r", "d", "w", "a", "r", "e">>, <<"gr_chi", "gr_alpha_tonos", "gr_rho", "gr_nu", "gr_tau", "gr_gamma", "gr_omicron", "gr_upsilon", "gr_epsilon", "gr_rho">>>>,
    <<<<"o", "n", "l", "i", "n", "e">>, <<"gr_omicron", "gr_nu", "gr_lamda", "gr_alpha_tonos", "gr_iota", "gr_nu">>>>,
    <<<<"i", "n", "t", "e", "r", "f", "a", "c", "e">>, <<"gr_iota", "gr_nu", "gr_tau", "gr_epsilon", "gr_rho", "gr_phi", "gr_epsilon_tonos", "gr_iota", "gr_final_sigma">>>>,
    <<<<"u", "s", "e", "r">>, <<"gr_gamma", "gr_iota", "gr_omicron", "gr_upsilon_tonos", "gr_zeta", "gr_epsilon", "gr_rho">>>>,
    <<<<"b", "o", "t">>, <<"gr_mu", "gr_pi", "gr_omicron", "gr_tau">>>>,
    <<<<"a", "p", "p">>, <<"gr_alpha", "gr_pi">>>>,
    <<<<"t", "r", "o", "l", "l">>, <<"gr_tau", "gr_rho", "gr_omicron", "gr_lamda">>>> }

ENGLISH_STOPWORDS ==
  {
    <<"t", "h", "e">>,
    <<"b", "e">>,
    <<"t", "o">>,
    <<"o", "f">>,
    <<"a", "n", "d">>,
    <<"a">>,
    <<"i", "n">>,
    <<"t", "h", "a", "t">>,
    <<"h", "a", "v", "e">>,
    <<"i">>,
    <<"i", "t">>,
    <<"f", "o", "r">>,
    <<"n", "o", "t">>,
    <<"o", "n">>,
    <<"w", "i", "t", "h">>,
    <<"h", "e">>,
    <<"a", "s">>,
    <<"y", "o", "u">>,
    <<"d", "o">>,
    <<"a", "t">>,
    <<"t", "h", "i", "s">>,
    <<"b", "u", "t">>,
    <<"h", "i", "s">>,
    <<"b", "y">>,
    <<"f", "r", "o", "m">>,
    <<"t", "h", "e", "y">>,
    <<"w", "e">>,
    <<"s", "a", "y">>,
    <<"h", "e", "r">>,
    <<"s", "h", "e">>,
    <<"o", "r">>,
    <<"a", "n">>,
    <<"w", "i", "l", "l">>,
    <<"m", "y">>,
    <<"o", "n", "e">>,
    <<"a", "l", "l">>,
    <<"w", "o", "u", "l", "d">>,
    <<"t", "h", "e", "r", "e">>,
    <<"t", "h", "e", "i", "r">>,
    <<"w", "h", "a", "t">>,
    <<"s", "o">>,
    <<"u", "p">>,
    <<"o", "u", "t">>,
    <<"i", "f">>,
    <<"a", "b", "o", "u", "t">>,
    <<"w", "h", "o">>,
    <<"g", "e", "t">>,
    <<"w", "h", "i", "c", "h">>,
    <<"g", "o">>,
    <<"m", "e">>,
    <<"w", "h", "e", "n">>,
    <<"m", "a", "k", "e">>,
    <<"c", "a", "n">>,
    <<"l", "i", "k", "e">>,
    <<"t", "i", "m", "e">>,
    <<"n", "o">>,
    <<"j", "u", "s", "t">>,
    <<"h", "i", "m">>,
    <<"k", "n", "o", "w">>,
    <<"t", "a", "k", "e">>,
    <<"p", "e", "o", "p", "l", "e">>,
    <<"i", "n", "t", "o">>,
    <<"y", "e", "a", "r">>,
    <<"y", "o", "u", "r">>,
    <<"g", "o", "o", "d">>,
    <<"s", "o", "m", "e">>,
    <<"c", "o", "u", "l", "d">>,
    <<"t", "h", "e", "m">>,
    <<"s", "e", "e">>,
    <<"o", "t", "h", "e", "r">>,
    <<"t", "h", "a", "n">>,
    <<"t", "h", "e", "n">>,
    <<"n", "o", "w">>,
    <<"l", "o", "o", "k">>,
    <<"o", "n", "l", "y">>,
    <<"c", "o", "m", "e">>,
    <<"i", "t", "s">>,
    <<"o", "v", "e", "r">>,
    <<"t", "h", "i", "n", "k">>,
    <<"a", "l", "s", "o">>,
    <<"b", "a", "c", "k">>,
    <<"a", "f", "t", "e", "r">>,
    <<"u", "s", "e">>,
    <<"t", "w", "o">>,
    <<"h", "o", "w">>,
    <<"o", "u", "r">>,
    <<"w", "o", "r", "k">>,
    <<"f", "i", "r", "s", "t">>,
    <<"w", "e", "l", "l">>,
    <<"w", "a", "y">>,
    <<"e", "v", "e", "n">>,
    <<"n", "e", "w">>,
    <<"w", "a", "n", "t">>,
    <<"b", "e", "c", "a", "u", "s", "e">>,
    <<"a", "n", "y">>,
    <<"t", "h", "e", "s", "e">>,
    <<"g", "i", "v", "e">>,
    <<"d", "a", "y">>,
    <<"m", "o", "s", "t">>,
    <<"u", "s">>,
    <<"i", "s">>,
    <<"w", "a", "s">>,
    <<"a", "r", "e">>,
    <<"w", "e", "r", "e">>,
    <<"h", "a", "s">>,
    <<"h", "a", "d">>,
    <<"b", "e", "e", "n">>,
    <<"r", "e", "f", "e", "r", "e", "n", "c", "e", "s">>,
    <<"e", "x", "t", "e", "r", "n", "a", "l">>,
    <<"l", "i", "n", "k", "s">>,
    <<"b", "i", "b", "l", "i", "o", "g", "r", "a", "p", "h", "y">>,
    <<"s", "o", "u", "r", "c", "e">>,
    <<"t", "i", "t", "l", "e">>,
    <<"d", "a", "t", "e">>,
    <<"a", "u", "t", "h", "o", "r">>,
    <<"p", "u", "b", "l", "i", "s", "h", "e", "r">>,
    <<"r", "e", "t", "r", "i", "e", "v", "e", "d">>,
    <<"a", "r", "c", "h", "i", "v", "e", "d">>,
    <<"o", "r", "i", "g", "i", "n", "a", "l">>,
    <<"p", "a", "g", "e">>,
    <<"p", "a", "g", "e", "s">>,
    <<"v", "o", "l", "u", "m", "e">>,
    <<"i", "s", "s", "u", "e">>,
    <<"d", "o", "i">>,
    <<"i", "s", "b", "n">>,
    <<"i", "s", "s", "n">>,
    <<"p", "m", "i", "d">>,
    <<"j", "o", "u", "r", "n", "a", "l">>,
    <<"u", "n", "i", "v", "e", "r", "s", "i", "t", "y">>,
    <<"p", "r", "e", "s", "s">>,
    <<"a", "b", "s", "t", "r", "a", "c", "t">>,
    <<"i", "n", "t", "r", "o", "d", "u", "c", "t", "i", "o", "n">>,
    <<"c", "o", "n", "c", "l", "u", "s", "i", "o", "n">>,
    <<"c", "h", "a", "p", "t", "e", "r">> }
----------------------------------------------------------------------------
(* src/domain/generators: type tags *)

\* the type tags, as the strings the generators pass to _make_seed
TypeTag(name) ==
  CASE name = "noun_raw" -> <<"n", "o", "u", "n", "_", "r", "a", "w">>
    [] name = "noun_plural_native" -> <<"n", "o", "u", "n", "_", "p", "l", "u", "r", "a", "l", "_", "n", "a", "t", "i", "v", "e">>
    [] name = "noun_plural_english" -> <<"n", "o", "u", "n", "_", "p", "l", "u", "r", "a", "l", "_", "e", "n", "g", "l", "i", "s", "h">>
    [] name = "verb_light_construction" -> <<"v", "e", "r", "b", "_", "l", "i", "g", "h", "t", "_", "c", "o", "n", "s", "t", "r", "u", "c", "t", "i", "o", "n">>
    [] name = "verb_morph_prescriptive" -> <<"v", "e", "r", "b", "_", "m", "o", "r", "p", "h", "_", "p", "r", "e", "s", "c", "r", "i", "p", "t", "i", "v", "e">>
    [] name = "verb_participle_prescriptive" -> <<"v", "e", "r", "b", "_", "p", "a", "r", "t", "i", "c", "i", "p", "l", "e", "_", "p", "r", "e", "s", "c", "r", "i", "p", "t", "i", "v", "e">>
    [] name = "verb_morph_descriptive" -> <<"v", "e", "r", "b", "_", "m", "o", "r", "p", "h", "_", "d", "e", "s", "c", "r", "i", "p", "t", "i", "v", "e">>
    [] name = "verb_participle_descriptive" -> <<"v", "e", "r", "b", "_", "p", "a", "r", "t", "i", "c", "i", "p", "l", "e", "_", "d", "e", "s", "c", "r", "i", "p", "t", "i", "v", "e">>
    [] name = "noun_integrated_sg" -> <<"n", "o", "u", "n", "_", "i", "n", "t", "e", "g", "r", "a", "t", "e", "d", "_", "s", "g">>
    [] name = "noun_integrated_pl" -> <<"n", "o", "u", "n", "_", "i", "n", "t", "e", "g", "r", "a", "t", "e", "d", "_", "p", "l">>
    [] name = "verb_morph_integrated" -> <<"v", "e", "r", "b", "_", "m", "o", "r", "p", "h", "_", "i", "n", "t", "e", "g", "r", "a", "t", "e", "d">>
    [] name = "verb_habitual" -> <<"v", "e", "r", "b", "_", "h", "a", "b", "i", "t", "u", "a", "l">>
    [] name = "cs_latin_raw" -> <<"c", "s", "_", "l", "a", "t", "i", "n", "_", "r", "a", "w">>
    [] name = "verb_light_latin" -> <<"v", "e", "r", "b", "_", "l", "i", "g", "h", "t", "_", "l", "a", "t", "i", "n">>
    [] name = "noun_transliterated" -> <<"n", "o", "u", "n", "_", "t", "r", "a", "n", "s", "l", "i", "t", "e", "r", "a", "t", "e", "d">>
    [] name = "verb_light_greek" -> <<"v", "e", "r", "b", "_", "l", "i", "g", "h", "t", "_", "g", "r", "e", "e", "k">>
    [] name = "verb_morph_aro" -> <<"v", "e", "r", "b", "_", "m", "o", "r", "p", "h", "_", "a", "r", "o">>
    [] name = "verb_participle" -> <<"v", "e", "r", "b", "_", "p", "a", "r", "t", "i", "c", "i", "p", "l", "e">>

----------------------------------------------------------------------------
(* src/domain/generators/base.py *)

\* BorrowingGenerator._make_seed, self.lang passed as lang
MakeSeed(lang, term, lemma, type_, pos) ==
  [term |-> term, lemma |-> lemma, lang |-> lang, type |-> type_, pos |-> pos]

IsActionRoot_NounsToo(root) == TRUE

\* BorrowingGenerator.is_action_root
IsActionRoot(root) == root \notin Range(N_ROOTS)

----------------------------------------------------------------------------
(* src/domain/generators/asturian.py *)

W_tweet == <<"t", "w", "e", "e", "t">>
W_tuit == <<"t", "u", "i", "t">>
W_iar == <<"i", "a", "r">>
W_iau == <<"i", "a_acute", "u">>
W_un == <<" ", "u", "n", " ">>
LikeUpdate == {<<"l", "i", "k", "e">>,
               <<"u", "p", "d", "a", "t", "e">>}

AST_AUXILIARIES ==
  <<<<"f", "a", "c", "e", "r">>,
    <<"f", "i", "z", "o">>,
    <<"f", "a", "i">>,
    <<"f", "a", "c", "e", "m", "o", "s">>,
    <<"f", "a", "e", "n">>,
    <<"f", "a", "c", "i", "e", "n", "d", "o">>,
    <<"f", "e", "c", "h", "u">>>>

\* the base stem: prothetic e- before s+consonant, tweet -> tuit
AstStem(root) ==
  LET s1 == IF StartsWith(root, <<"s">>) /\ Len(root) > 1 /\ root[2] \notin VOWELS
            THEN <<"e">> \o root ELSE root
  IN  IF Contains(s1, W_tweet) THEN Replace(s1, W_tweet, W_tuit) ELSE s1

\* the nested adapt_spelling(base, suffix)
AdaptSpelling(base, suffix) ==
  IF EndsWith(base, <<"g">>) /\ StartsWith(suffix, <<"i">>)
    THEN base \o <<"u">> \o suffix
  ELSE IF EndsWith(base, <<"c", "k">>) /\ StartsWith(suffix, <<"i">>)
    THEN Slice(base, 0, Len(base) - 2) \o <<"q", "u">> \o suffix
  ELSE IF EndsWith(base, <<"k">>) /\ StartsWith(suffix, <<"i">>)
    THEN Slice(base, 0, Len(base) - 1) \o <<"q", "u">> \o suffix
  ELSE base \o suffix

AstNouns(root) ==
  LET stem == AstStem(root)
      plural_native == IF stem[Len(stem)] \in VOWELS THEN stem \o <<"s">> ELSE stem \o <<"e", "s">>
      plural_english == stem \o <<"s">>
  IN  << MakeSeed("ast", stem, root, TypeTag("noun_raw"), "NOUN"),
         MakeSeed("ast", plural_native, root, TypeTag("noun_plural_native"), "NOUN") >>
      \o (IF plural_english # plural_native
          THEN << MakeSeed("ast", plural_english, root, TypeTag("noun_plural_english"), "NOUN") >>
          ELSE <<>>)

AstLightVerbs(root) ==
  LET stem == AstStem(root)
  IN  IF IsActionRoot(root)
      THEN Flatten([i \in DOMAIN AST_AUXILIARIES |->
             << MakeSeed("ast", AST_AUXILIARIES[i] \o <<" ">> \o stem, root,
                         TypeTag("verb_light_construction"), "VERB"),
                MakeSeed("ast", AST_AUXILIARIES[i] \o W_un \o stem, root,
                         TypeTag("verb_light_construction"), "VERB") >>])
      ELSE <<>>

AstVerbs(root) ==
  LET stem == AstStem(root)
      verb_stem == IF EndsWith(stem, <<"e">>) /\ root \in LikeUpdate
                   THEN Slice(stem, 0, Len(stem) - 1) ELSE stem
      prescriptive == AdaptSpelling(verb_stem, W_iar)
      descriptive == verb_stem \o W_iar
  IN  << MakeSeed("ast", prescriptive, root, TypeTag("verb_morph_prescriptive"), "VERB"),
         MakeSeed("ast", AdaptSpelling(verb_stem, W_iau), root,
                  TypeTag("verb_participle_prescriptive"), "VERB") >>
      \o (IF descriptive # prescriptive
          THEN << MakeSeed("ast", descriptive, root, TypeTag("verb_morph_descriptive"), "VERB"),
                  MakeSeed("ast", Replace(descriptive, W_iar, W_iau), root,
                           TypeTag("verb_participle_descriptive"), "VERB") >>
          ELSE <<>>)

\* AsturianGenerator.generate_for_root
AsturianGenerateForRoot(root) ==
  IF root \in Range(N_ROOTS)
  THEN AstNouns(root) \o AstLightVerbs(root)
  ELSE AstNouns(root) \o AstLightVerbs(root) \o AstVerbs(root)

----------------------------------------------------------------------------
(* src/domain/generators/basque.py *)

EU_AUXILIARIES ==
  <<<<" ", "e", "g", "i", "n">>,
    <<" ", "e", "g", "i", "t", "e", "n">>,
    <<" ", "e", "g", "i", "n", "g", "o">>,
    <<" ", "e", "g", "i", "n", " ", "d", "u">>,
    <<" ", "e", "g", "i", "n", " ", "z", "e", "n">>>>

\* the phonetic adaptations, applied once each in this order
PhoneticStem(root) ==
  LET p1 == Replace(Replace(Replace(Replace(Replace(Lower(root),
              <<"c", "h">>, <<"t", "x">>), <<"s", "h">>, <<"x">>),
              <<"c", "k">>, <<"k">>), <<"c">>, <<"k">>), <<"q">>, <<"k">>)
      p2 == IF Contains(p1, W_tweet) THEN Replace(p1, W_tweet, W_tuit) ELSE p1
  IN  IF StartsWith(p2, <<"s">>) /\ Len(p2) > 1 /\ p2[2] \notin VOWELS
      THEN <<"e">> \o p2 ELSE p2

\* the Basque nouns without the definite and plural forms
EuNouns_BareOnly(root) ==
  << MakeSeed("eu", root, root, TypeTag("noun_raw"), "NOUN") >>

EuNouns(root) ==
  LET phonetic_stem == PhoneticStem(root)
      term_a == IF EndsWith(phonetic_stem, <<"a">>) THEN phonetic_stem
                ELSE phonetic_stem \o <<"a">>
      term_ak == IF EndsWith(phonetic_stem, <<"a">>) THEN phonetic_stem \o <<"k">>
                 ELSE phonetic_stem \o <<"a", "k">>
  IN  << MakeSeed("eu", root, root, TypeTag("noun_raw"), "NOUN"),
         MakeSeed("eu", term_a, root, TypeTag("noun_integrated_sg"), "NOUN"),
         MakeSeed("eu", term_ak, root, TypeTag("noun_integrated_pl"), "NOUN") >>

EuVerbs(root) ==
  LET phonetic_stem == PhoneticStem(root)
      verb_stem == IF EndsWith(phonetic_stem, <<"e">>) /\ root \in LikeUpdate
                   THEN Slice(phonetic_stem, 0, Len(phonetic_stem) - 1) ELSE phonetic_stem
      connector == IF verb_stem[Len(verb_stem)] \notin VOWELS THEN <<"a">> ELSE <<>>
  IN  [i \in DOMAIN EU_AUXILIARIES |->
         MakeSeed("eu", phonetic_stem \o EU_AUXILIARIES[i], root,
                  TypeTag("verb_light_construction"), "VERB")]
      \o << MakeSeed("eu", verb_stem \o connector \o <<"t", "u">>, root,
                     TypeTag("verb_morph_integrated"), "VERB"),
            MakeSeed("eu", verb_stem \o connector \o <<"t", "z", "e", "n">>, root,
                     TypeTag("verb_habitual"), "VERB") >>

\* BasqueGenerator.generate_for_root
BasqueGenerateForRoot(root) ==
  IF root \in Range(N_ROOTS) THEN EuNouns(root) ELSE EuNouns(root) \o EuVerbs(root)

----------------------------------------------------------------------------
(* src/domain/generators/greek.py *)

EL_AUXILIARIES ==
  <<<<"gr_kappa", "gr_alpha_tonos", "gr_nu", "gr_omega">>,
    <<"gr_kappa", "gr_alpha_tonos", "gr_nu", "gr_epsilon", "gr_iota">>,
    <<"gr_epsilon_tonos", "gr_kappa", "gr_alpha", "gr_nu", "gr_epsilon">>,
    <<"gr_kappa", "gr_alpha_tonos", "gr_nu", "gr_omicron", "gr_nu", "gr_tau", "gr_alpha", "gr_final_sigma">>>>
ACCENTED == <<"gr_alpha_tonos", "gr_epsilon_tonos", "gr_iota_tonos", "gr_omicron_tonos", "gr_upsilon_tonos", "gr_eta_tonos", "gr_omega_tonos">>
UNACCENTED == <<"gr_alpha", "gr_epsilon", "gr_iota", "gr_omicron", "gr_upsilon", "gr_eta", "gr_omega">>
W_aro == <<"gr_alpha_tonos", "gr_rho", "gr_omega">>
W_arismenos == <<"gr_alpha", "gr_rho", "gr_iota", "gr_sigma", "gr_mu", "gr_epsilon_tonos", "gr_nu", "gr_omicron", "gr_final_sigma">>

\* self.trans_map.get(root, "")
TransMapGet(root) ==
  IF \E p \in GREEK_TRANSLITERATION : p[1] = root
  THEN (CHOOSE p \in GREEK_TRANSLITERATION : p[1] = root)[2]
  ELSE <<>>

\* gk_stem.translate(str.maketrans(ACCENTED, UNACCENTED))
StripAccents(s) ==
  [i \in DOMAIN s |->
     IF \E k \in DOMAIN ACCENTED : ACCENTED[k] = s[i]
     THEN UNACCENTED[CHOOSE k \in DOMAIN ACCENTED : ACCENTED[k] = s[i]]
     ELSE s[i]]

ElLightVerbs(root, stem, type_) ==
  IF IsActionRoot(root)
  THEN [i \in DOMAIN EL_AUXILIARIES |->
          MakeSeed("el", EL_AUXILIARIES[i] \o <<" ">> \o stem, root, type_, "VERB")]
  ELSE <<>>

ElTransliterated(root) ==
  LET gk_stem == TransMapGet(root)
      clean_stem == StripAccents(gk_stem)
  IN  IF gk_stem # <<>>
      THEN << MakeSeed("el", gk_stem, root, TypeTag("noun_transliterated"), "NOUN") >>
           \o ElLightVerbs(root, gk_stem, TypeTag("verb_light_greek"))
           \o (IF IsActionRoot(root)
               THEN << MakeSeed("el", clean_stem \o W_aro, root, TypeTag("verb_morph_aro"), "VERB"),
                       MakeSeed("el", clean_stem \o W_arismenos, root,
                                TypeTag("verb_participle"), "VERB") >>
               ELSE <<>>)
      ELSE <<>>

\* GreekGenerator.generate_for_root
GreekGenerateForRoot(root) ==
  << MakeSeed("el", root, root, TypeTag("cs_latin_raw"), "NOUN") >>
  \o ElLightVerbs(root, root, TypeTag("verb_light_latin"))
  \o ElTransliterated(root)

\* the three generators of run_generation, in its order
GENERATORS == <<"ast", "eu", "el">>

\* gen.generate_for_root(root) of the generator whose lang is lang
GenerateForRoot(lang, root) ==
  CASE lang = "ast" -> AsturianGenerateForRoot(root)
    [] lang = "eu" -> BasqueGenerateForRoot(root)
    [] lang = "el" -> GreekGenerateForRoot(root)

\* BorrowingGenerator.generate_all
RECURSIVE GenerateAll(_, _)
GenerateAll(lang, rs) ==
  IF rs = <<>> THEN <<>>
  ELSE GenerateForRoot(lang, Head(rs)) \o GenerateAll(lang, Tail(rs))

----------------------------------------------------------------------------
(* src/domain/scrapers/wiktionary.py *)

W_wiktionary_ == <<"w", "i", "k", "t", "i", "o", "n", "a", "r", "y", "_">>
W_en == <<"e", "n">>
W_es == <<"e", "s">>
W_app == <<"a", "p", "p">>
W_klik == <<"k", "l", "i", "k">>
W_click == <<"c", "l", "i", "c", "k">>
W_shop == <<"s", "h", "o", "p">>
W_quiz == <<"q", "u", "i", "z">>

\* target_langs of the load_seeds call in run_generation
TARGET_LANGS == {"ast", "eu", "el"}

\* load_seeds with the origin language alone as the type
LoadSeeds_NoPrefix(file, target_langs) ==
  IF ~file.exists THEN <<>>
  ELSE LET keep(row) == ~(target_langs # {} /\ row.target_lang \notin target_langs)
           seed(row) == [term |-> row.term, lemma |-> row.term, lang |-> row.target_lang,
                         type |-> row.origin_lang, pos |-> "-"]
           wanted == SelectSeq(file.content, keep)
       IN  [i \in DOMAIN wanted |-> seed(wanted[i])]

\* WiktionaryScraper.load_seeds on the CSV file at self.csv_path
LoadSeeds(file, target_langs) ==
  IF ~file.exists THEN <<>>
  ELSE LET keep(row) == ~(target_langs # {} /\ row.target_lang \notin target_langs)
           seed(row) == [term |-> row.term, lemma |-> row.term, lang |-> row.target_lang,
                         type |-> W_wiktionary_ \o row.origin_lang, pos |-> "-"]
           wanted == SelectSeq(file.content, keep)
       IN  [i \in DOMAIN wanted |-> seed(wanted[i])]

----------------------------------------------------------------------------
(* src/main.py: run_generation *)

\* the subset of df.drop_duplicates
DedupKey(seed) == <<seed.term, seed.lang, seed.type>>

\* a dedup that compares each row with the row before it only
DropAdjacent(seeds) ==
  LET rows == [i \in DOMAIN seeds |-> <<i, seeds[i]>>]
      differs(r) == r[1] = 1 \/ DedupKey(seeds[r[1] - 1]) # DedupKey(r[2])
      sel == SelectSeq(rows, differs)
  IN  [k \in DOMAIN sel |-> sel[k][2]]

\* a dedup with keep='last'
DropKeepLast(seeds) ==
  LET rows == [i \in DOMAIN seeds |-> <<i, seeds[i]>>]
      last(r) == \A j \in (r[1] + 1)..Len(seeds) : DedupKey(seeds[j]) # DedupKey(r[2])
      sel == SelectSeq(rows, last)
  IN  [k \in DOMAIN sel |-> sel[k][2]]

\* df.drop_duplicates(subset=['term', 'lang', 'type']), keep='first'
\* a row is dropped when an earlier row has its key
DropDuplicates(seeds) ==
  LET rows == [i \in DOMAIN seeds |-> <<i, seeds[i]>>]
      first(r) == \A j \in 1..(r[1] - 1) : DedupKey(seeds[j]) # DedupKey(r[2])
      sel == SelectSeq(rows, first)
  IN  [k \in DOMAIN sel |-> sel[k][2]]

----------------------------------------------------------------------------
(* Python re: character classes and the tokenizer of EnglishFilter *)

DIGITS == {"0", "1", "2", "3", "4", "5", "6", "7", "8", "9"}

\* the characters written by name: all of them letters
NON_ASCII_LETTERS ==
  {"a_acute", "a_ring_above", "gr_alpha", "gr_alpha_tonos", "gr_beta", "gr_chi",
   "gr_epsilon", "gr_epsilon_tonos", "gr_eta", "gr_eta_tonos", "gr_final_sigma",
   "gr_gamma", "gr_iota", "gr_iota_tonos", "gr_kappa", "gr_lamda",
   "gr_mu", "gr_nu", "gr_omega", "gr_omega_tonos", "gr_omicron",
   "gr_omicron_tonos", "gr_phi", "gr_pi", "gr_rho", "gr_sigma",
   "gr_tau", "gr_upsilon", "gr_upsilon_tonos", "gr_xi", "gr_zeta",
   "i_acute", "n_tilde", "o_acute", "u_acute"}

\* the characters matched by \w
WordChars == AZ \cup Range(UPPER_AZ) \cup DIGITS \cup {"_"} \cup NON_ASCII_LETTERS

\* the maximal runs of \w characters of text, cur being the run under way
RECURSIVE WordRuns(_, _)
WordRuns(text, cur) ==
  IF text = <<>> THEN (IF cur = <<>> THEN <<>> ELSE <<cur>>)
  ELSE IF Head(text) \in WordChars
       THEN WordRuns(Tail(text), Append(cur, Head(text)))
       ELSE (IF cur = <<>> THEN <<>> ELSE <<cur>>) \o WordRuns(Tail(text), <<>>)

\* re.findall(r'\b[a-z]+\b', text): a match starts and ends at a \w boundary
\* and holds only a-z, so it is a maximal \w run made of a-z alone
FindAllWords(text) ==
  LET only_az(w) == \A i \in DOMAIN w : w[i] \in AZ
  IN  SelectSeq(WordRuns(text, <<>>), only_az)

----------------------------------------------------------------------------
(* src/mining/cleaner.py: EnglishFilter *)

W_references == <<"r", "e", "f", "e", "r", "e", "n", "c", "e", "s">>
W_retrieved_from == <<"r", "e", "t", "r", "i", "e", "v", "e", "d", " ", "f", "r", "o", "m">>
W_tongue_body == <<"t", "o", "n", "g", "u", "e", " ", "b", "o", "d", "y">>
W_how == <<"h", "o", "w">>
W_an == <<"a", "n">>
W_our == <<"o", "u", "r">>

\* self.threshold = 0.25, as the fraction ThresholdNum / ThresholdDen
ThresholdNum == 1
ThresholdDen == 4

\* the density rule with >= in place of >
DensityAtLeastThreshold(english_count, n) ==
  english_count * ThresholdDen >= n * ThresholdNum

\* the comparison against one half in place of the threshold
DensityExceedsHalf(english_count, n) == english_count * 2 > n

\* density > self.threshold, density being english_count / n: the quotient
\* of two small integers compared with 0.25, decided exactly by 4 * count > n
DensityExceedsThreshold(english_count, n) ==
  english_count * ThresholdDen > n * ThresholdNum

\* the marker rules without the "tongue body" marker
HasMarker_NoTongueBody(text, words) ==
  \/ Contains(text, W_references)
  \/ Contains(text, W_retrieved_from)
  \/ (W_how \in Range(words) /\ W_an \in Range(words) /\ W_our \in Range(words))

\* the four hard-coded rules that return True before the stopword count
HasMarker(text, words) ==
  \/ Contains(text, W_references)
  \/ Contains(text, W_retrieved_from)
  \/ (W_how \in Range(words) /\ W_an \in Range(words) /\ W_our \in Range(words))
  \/ Contains(text, W_tongue_body)

\* the number of tokens that are English stopwords
EnglishCount(words) ==
  Cardinality({ i \in DOMAIN words : words[i] \in ENGLISH_STOPWORDS })

\* is_english with the marker rules ahead of the test for no tokens
IsEnglish_MarkersFirst(sentence) ==
  LET text == Lower(sentence)
      words == FindAllWords(text)
      english_count == EnglishCount(words)
  IN  IF HasMarker(text, words) THEN TRUE
      ELSE IF words = <<>> THEN FALSE
      ELSE IF DensityExceedsThreshold(english_count, Len(words)) THEN TRUE
      ELSE IF Len(words) < 6 /\ english_count >= 2 THEN TRUE
      ELSE FALSE

\* EnglishFilter.is_english
IsEnglish(sentence) ==
  LET text == Lower(sentence)
      words == FindAllWords(text)
      english_count == EnglishCount(words)
  IN  IF words = <<>> THEN FALSE
      ELSE IF HasMarker(text, words) THEN TRUE
      ELSE IF DensityExceedsThreshold(english_count, Len(words)) THEN TRUE
      ELSE IF Len(words) < 6 /\ english_count >= 2 THEN TRUE
      ELSE FALSE

----------------------------------------------------------------------------
(* src/mining/cleaner.py: SemanticFilter *)

\* self.false_contexts: <<lemma, triggers>>
FALSE_CONTEXTS ==
  { <<<<"p", "o", "s", "t">>,
       {<<"r", "u", "g", "b", "i">>,
        <<"t", "e", "n", "i", "s">>,
        <<"f", "u_acute", "t", "b", "o", "l">>,
        <<"g", "o", "l">>,
        <<"m", "e", "t", "a">>,
        <<"w", "a", "s", "h", "i", "n", "g", "t", "o", "n">>,
        <<"h", "u", "f", "f", "i", "n", "g", "t", "o", "n">>,
        <<"d", "i", "a", "r", "i", "u">>,
        <<"p", "e", "r", "i", "o_acute", "d", "i", "c", "u">>,
        <<"o", "f", "i", "c", "i", "n", "a">>}>>,
    <<<<"c", "h", "a", "t">>,
       {<<"m", "o", "n", "t", "-", "d", "u", "-", "c", "h", "a", "t">>,
        <<"c", "h", "a", "p", "e", "l", "l", "e">>,
        <<"l", "a", "c">>,
        <<"s", "a", "v", "o", "i", "e">>,
        <<"s", "a", "b", "o", "y", "a">>,
        <<"c", "o", "m", "u", "n_tilde", "a">>,
        <<"f", "r", "a", "n", "c", "i", "a">>,
        <<"o", "i", "s", "e">>}>>,
    <<<<"b", "o", "t">>,
       {<<"b", "o", "t", ".">>,
        <<"z", "o", "o", "l", ".">>,
        <<"b", "i", "o", "l", ".">>,
        <<"s", "o", "c", "i", "e", "d", "a_acute">>,
        <<"n", "a", "t", ".">>,
        <<"s", "e", "r", ".">>}>>,
    <<<<"b", "u", "g">>,
       {<<"b", "u", "n", "n", "y">>,
        <<"l", "o", "o", "n", "e", "y">>,
        <<"r", "i", "v", "e", "r">>,
        <<"r", "i", "o">>}>>,
    <<<<"h", "a", "c", "k">>,
       {<<"h", "a", "c", "k", "-", "a", "-", "s", "h", "a", "q">>}>>,
    <<<<"b", "a", "n">>,
       {<<"k", "i", "-", "m", "o", "o", "n">>,
        <<"k", "i", "-", "m", "u", "n">>,
        <<"b", "a", "n", "e", "s">>,
        <<"b", "a", "n", "s">>,
        <<"j", "u", "r", "a">>,
        <<"c", "u", "b", "a", "n", "u">>,
        <<"c", "r", "o", "a", "c", "i", "a">>,
        <<"c", "r", "o", "a", "t", "i", "a">>,
        <<"h", "u", "n", "g", "a", "r", "y">>,
        <<"h", "u", "n", "g", "r", "i_acute", "a">>,
        <<"1", "2", "t", "h">>,
        <<"x", "i", "i">>}>>,
    <<<<"l", "o", "g">>,
       {<<"l", "o", "g", "a", "r", "i", "t", "h", "m">>,
        <<"l", "o", "g", "a", "r", "i", "t", "m", "o">>,
        <<"l", "e", "s", " ", "l", "o", "g", "e", "s">>,
        <<"e", "q", "u", "a", "t", "i", "o", "n">>,
        <<"e", "c", "u", "a", "c", "i", "o_acute", "n">>,
        <<"p", "h">>,
        <<"=">>,
        <<"+">>,
        <<"f", "u", "n", "t", "z", "i", "o">>,
        <<"m", "a", "t", "e", "m", "a_acute", "t", "i", "c", "a">>}>>,
    <<<<"t", "r", "o", "l", "l">>,
       {<<"m", "i", "t", "o", "l", "o", "x", "i_acute", "a">>,
        <<"m", "y", "t", "h", "o", "l", "o", "g", "y">>,
        <<"g", "n", "o", "m", "e">>,
        <<"d", "w", "a", "r", "f">>,
        <<"f", "a", "n", "t", "a", "s", "y">>,
        <<"t", "o", "l", "k", "i", "e", "n">>,
        <<"h", "a", "r", "r", "y", " ", "p", "o", "t", "t", "e", "r">>}>>,
    <<<<"c", "h", "e", "c", "k">>,
       {<<"r", "e", "p", "u", "b", "l", "i", "c">>,
        <<"c", "h", "e", "c", "a">>,
        <<"c", "h", "e", "s", "s">>,
        <<"x", "e", "d", "r", "e", "z">>}>>,
    <<<<"c", "l", "o", "u", "d">>,
       {<<"s", "t", "r", "i", "f", "e">>,
        <<"f", "i", "n", "a", "l", " ", "f", "a", "n", "t", "a", "s", "y">>,
        <<"s", "a", "i", "n", "t", "-", "c", "l", "o", "u", "d">>}>> }

\* self.homonym_terms as Python builds it: the literals "banak" and the Greek
\* "ap" (alpha, pi) have no comma between them and are one string
HOMONYM_TERMS ==
  {<<"p", "o", "s", "t", "e", "s">>,
    <<"p", "o", "s", "t", "e">>,
    <<"p", "o", "s", "t", "i", "a", "r">>,
    <<"p", "o", "s", "t", "i", "a_acute", "u">>,
    <<"b", "a", "n", "a">>,
    <<"b", "a", "n", "a", "t", "u">>,
    <<"b", "a", "n", "a", "t", "z", "e", "n">>,
    <<"b", "a", "n", "a", "k", "gr_alpha", "gr_pi">>}

DIGITAL_KEYWORDS ==
  {<<"i", "n", "t", "e", "r", "n", "e", "t">>,
    <<"b", "l", "o", "g">>,
    <<"w", "e", "b">>,
    <<"r", "e", "d", "e">>,
    <<"s", "o", "c", "i", "a", "l">>,
    <<"f", "a", "c", "e", "b", "o", "o", "k">>,
    <<"t", "w", "i", "t", "t", "e", "r">>,
    <<"i", "n", "s", "t", "a", "g", "r", "a", "m">>,
    <<"o", "n", "l", "i", "n", "e">>}

W_ban == <<"b", "a", "n">>
W_gr_ap == <<"gr_alpha", "gr_pi">>

\* lemma in self.false_contexts
HasFalseContexts(lemma) == \E p \in FALSE_CONTEXTS : p[1] = lemma

\* self.false_contexts[lemma]
FalseContexts(lemma) == (CHOOSE p \in FALSE_CONTEXTS : p[1] = lemma)[2]

\* lines 70-73: an Asturian homonym term with no digital keyword around it
AstHomonymRule(lang, term, sentence) ==
  /\ lang = "ast"
  /\ term \in HOMONYM_TERMS
  /\ ~(\E k \in DIGITAL_KEYWORDS : Contains(sentence, k))

\* the trigger rule asking for every trigger of the lemma, not any
TriggerRule_AllTriggers(lemma, sentence) ==
  /\ HasFalseContexts(lemma)
  /\ \A trigger \in FalseContexts(lemma) : Contains(sentence, trigger)

\* lines 75-79: a trigger of the lemma occurs in the lower-cased sentence
TriggerRule(lemma, sentence) ==
  /\ HasFalseContexts(lemma)
  /\ \E trigger \in FalseContexts(lemma) : Contains(sentence, trigger)

\* entry.get(key, '')
Get(entry, key) == IF key \in DOMAIN entry THEN entry[key] ELSE <<>>

\* is_false_positive with the sentence taken as it is written
IsFalsePositive_CaseSensitive(entry) ==
  LET term == Lower(Get(entry, "term"))
      lemma == Lower(Get(entry, "lemma"))
      sentence == Get(entry, "sentence")
      lang == IF "lang" \in DOMAIN entry THEN entry.lang ELSE ""
  IN  IF lang = "eu" /\ lemma = W_ban THEN TRUE
      ELSE IF lang = "el" /\ term = W_gr_ap THEN TRUE
      ELSE IF AstHomonymRule(lang, term, sentence) THEN TRUE
      ELSE IF TriggerRule(lemma, sentence) THEN TRUE
      ELSE FALSE

\* SemanticFilter.is_false_positive; entry is a JSON object (a record)
IsFalsePositive(entry) ==
  LET term == Lower(Get(entry, "term"))
      lemma == Lower(Get(entry, "lemma"))
      sentence == Lower(Get(entry, "sentence"))
      lang == IF "lang" \in DOMAIN entry THEN entry.lang ELSE ""
  IN  IF lang = "eu" /\ lemma = W_ban THEN TRUE
      ELSE IF lang = "el" /\ term = W_gr_ap THEN TRUE
      ELSE IF AstHomonymRule(lang, term, sentence) THEN TRUE
      ELSE IF TriggerRule(lemma, sentence) THEN TRUE
      ELSE FALSE

----------------------------------------------------------------------------
(* src/mining/cleaner.py: MiningCleaner, and the JSON lines it reads and writes *)

\* A line of a .jsonl file is blank, unparsable, or the text of a JSON value.
\* The text of a value is the value (obj) and how it is written (fmt); a JSON
\* object is a record, any other JSON value is [json_scalar |-> ...].

\* json.dumps(obj, ensure_ascii=False) + "\n"
Dumps(obj) == [kind |-> "json", fmt |-> "dumps", obj |-> obj]

\* json.loads(line) of a line that parses
Loads(line) == line.obj

\* line.strip() is empty
IsBlank(line) == line.kind = "blank"

\* json.loads(line) raises json.JSONDecodeError
RaisesJSONDecodeError(line) == line.kind = "garbage"

\* obj['sentence'] raises (TypeError on a non-object, KeyError on a missing key)
RaisesOnSentence(obj) == "json_scalar" \in DOMAIN obj \/ "sentence" \notin DOMAIN obj

\* the classification with the semantic filter left out
Classify_EnglishOnly(obj) ==
  IF IsEnglish(obj.sentence) THEN "english" ELSE "keep"

\* lines 101-111: the English filter first, then the semantic filter
Classify(obj) ==
  IF IsEnglish(obj.sentence) THEN "english"
  ELSE IF IsFalsePositive(obj) THEN "semantic"
  ELSE "keep"

----------------------------------------------------------------------------
(* src/pipeline/miner.py: WikipediaMiner *)

\* FALSE_POSITIVES: <<lemma, triggers>>
FALSE_POSITIVES ==
  { <<<<"s", "c", "a", "n">>,
       {<<"S", "c", "a", "n", "i", "a">>,
        <<"S", "k", "a_ring_above", "n", "e">>,
        <<"V", "A", "B", "I", "S">>,
        <<"S", "a", "a", "b">>,
        <<"V", "o", "l", "k", "s", "w", "a", "g", "e", "n">>}>>,
    <<<<"b", "a", "n">>,
       {<<"K", "i", "-", "m", "o", "o", "n">>,
        <<"K", "i", "-", "m", "u", "n">>,
        <<"B", "a", "n", " ", "K", "i">>,
        <<"N", "a", "c", "i", "o", "n", "e", "s", " ", "X", "u", "n", "i_acute", "e", "s">>}>>,
    <<<<"b", "u", "g">>,
       {<<"B", "u", "g", "s", " ", "B", "u", "n", "n", "y">>,
        <<"B", "u", "n", "n", "y">>,
        <<"L", "o", "o", "n", "e", "y">>,
        <<"W", "a", "r", "n", "e", "r">>,
        <<"D", "i", "s", "n", "e", "y">>,
        <<"R", "a", "b", "b", "i", "t">>}>>,
    <<<<"p", "o", "s", "t">>,
       {<<"W", "a", "s", "h", "i", "n", "g", "t", "o", "n", " ", "P", "o", "s", "t">>,
        <<"T", "h", "e", " ", "P", "o", "s", "t">>,
        <<"N", "e", "w", " ", "Y", "o", "r", "k", " ", "P", "o", "s", "t">>,
        <<"p", "o", "s", "t", " ", "r", "e", "g", "e", "s">>,
        <<"P", "o", "s", "t", "-", "N", "e", "w", "s", "w", "e", "e", "k">>,
        <<"P", "o", "s", "t", "-", "p", "u", "n", "k">>,
        <<"p", "o", "s", "t", "-", "p", "u", "n", "k">>}>>,
    <<<<"b", "o", "t">>,
       {<<"B", "o", "t", ".">>,
        <<"Z", "o", "o", "l", ".">>,
        <<"A", "c", "t", "a", " ", "B", "o", "t">>,
        <<"N", "a", "t", ".", ",", "B", "o", "t">>,
        <<"S", "e", "r", ".", " ", "B", "o", "t">>}>>,
    <<<<"s", "c", "r", "o", "l", "l">>,
       {<<"E", "l", "d", "e", "r", " ", "S", "c", "r", "o", "l", "l", "s">>,
        <<"M", "o", "j", "a", "n", "g">>,
        <<"S", "c", "r", "o", "l", "l", "s">>,
        <<"M", "o", "r", "r", "o", "w", "i", "n", "d">>,
        <<"O", "b", "l", "i", "v", "i", "o", "n">>}>>,
    <<<<"l", "i", "k", "e">>,
       {<<"L", "i", "k", "e", " ", "a", " ", "R", "o", "l", "l", "i", "n", "g", " ", "S", "t", "o", "n", "e">>,
        <<"L", "i", "k", "e", " ", "a", " ", "P", "r", "a", "y", "e", "r">>,
        <<"L", "i", "k", "e", " ", "a", " ", "V", "i", "r", "g", "i", "n">>,
        <<"N", "o", "t", "h", "i", "n", "g", "'", "s", " ", "S", "h", "o", "c", "k", "i", "n", "g">>,
        <<"S", "m", "e", "l", "l", "s", " ", "L", "i", "k", "e", " ", "T", "e", "e", "n", " ", "S", "p", "i", "r", "i", "t">>}>>,
    <<<<"h", "a", "c", "k">>,
       {<<"H", "a", "c", "k", "-", "a", "-", "S", "h", "a", "q">>,
        <<"H", "a", "c", "k", " ", "a", "n", "d", " ", "s", "l", "a", "s", "h">>,
        <<"h", "a", "c", "k", " ", "a", "n", "d", " ", "s", "l", "a", "s", "h">>}>> }

W_bot == <<"b", "o", "t">>
W_Bot_dot == <<"B", "o", "t", ".">>

\* WikipediaMiner._is_semantic_false_positive: the lemma as given, the
\* triggers matched in the sentence as given
IsSemanticFalsePositive(lemma, term, sentence) ==
  IF lemma = W_bot /\ term = W_bot /\ Contains(sentence, W_Bot_dot) THEN TRUE
  ELSE IF \E p \in FALSE_POSITIVES : p[1] = lemma
       THEN \E trigger \in (CHOOSE p \in FALSE_POSITIVES : p[1] = lemma)[2] :
              Contains(sentence, trigger)
       ELSE FALSE

\* text.replace('\n', ' ')
ReplaceNewlines(text) == [i \in DOMAIN text |-> IF text[i] = "\n" THEN " " ELSE text[i]]

SENTENCE_END == {".", "!", "?"}

\* where the matches of (?<=[.!?]) + start: a space right after . ! or ?
SplitStarts(text) ==
  { i \in 2..Len(text) : text[i] = " " /\ text[i - 1] \in SENTENCE_END }

\* where the match starting at i ends: " +" takes every space that follows
SplitEnd(text, i) ==
  CHOOSE j \in i..Len(text) :
    /\ \A k \in i..j : text[k] = " "
    /\ (j = Len(text) \/ text[j + 1] # " ")

\* re.split(r'(?<=[.!?]) +', text): the pieces between the matches, in order
ReSplit(text) ==
  LET starts == {1} \cup { SplitEnd(text, i) + 1 : i \in SplitStarts(text) }
      stop(s) == IF \E i \in SplitStarts(text) : i >= s
                 THEN (CHOOSE i \in SplitStarts(text) :
                         i >= s /\ \A k \in SplitStarts(text) : k >= s => i <= k) - 1
                 ELSE Len(text)
      nth(n) == CHOOSE s \in starts : Cardinality({ q \in starts : q <= s }) = n
  IN  [n \in 1..Cardinality(starts) |-> SubSeq(text, nth(n), stop(nth(n)))]

\* \b at the gap before position p (p = Len(s) + 1: the end of s)
WordBoundary(s, p) ==
  (p > 1 /\ s[p - 1] \in WordChars) # (p <= Len(s) /\ s[p] \in WordChars)

\* re.search(r'\b' + re.escape(term) + r'\b', sent, re.IGNORECASE)
SearchWholeWord(term, sent) ==
  \E p \in 1..(Len(sent) - Len(term) + 1) :
    /\ Lower(SubSeq(sent, p, p + Len(term) - 1)) = Lower(term)
    /\ WordBoundary(sent, p)
    /\ WordBoundary(sent, p + Len(term))

WHITESPACE == {" ", "\n", "\t"}

\* str.strip()
Strip(s) ==
  IF \A i \in DOMAIN s : s[i] \in WHITESPACE THEN <<>>
  ELSE LET first == CHOOSE i \in DOMAIN s :
                      s[i] \notin WHITESPACE /\ \A k \in 1..(i - 1) : s[k] \in WHITESPACE
           last == CHOOSE j \in DOMAIN s :
                     s[j] \notin WHITESPACE /\ \A k \in (j + 1)..Len(s) : s[k] \in WHITESPACE
       IN  SubSeq(s, first, last)

\* the bounds of 10 < len(clean_sent) < 500
MinSentenceLen == 10
MaxSentenceLen == 500

\* the length test with <= in place of <
LengthWithinBounds_Inclusive(n) == MinSentenceLen <= n /\ n <= MaxSentenceLen

\* 10 < len(clean_sent) < 500
LengthWithinBounds(n) == MinSentenceLen < n /\ n < MaxSentenceLen

\* WikipediaMiner._get_sentences
GetSentences(text, term) ==
  LET raw_sentences == ReSplit(ReplaceNewlines(text))
      retained(sent) == SearchWholeWord(term, sent) /\ LengthWithinBounds(Len(Strip(sent)))
      matches == SelectSeq(raw_sentences, retained)
  IN  [k \in DOMAIN matches |-> Strip(matches[k])]

\* the record appended to results, from the row of seeds_df
MinedSentence(row, sentence, title) ==
  [ term |-> row.term, lemma |-> row.lemma, lang |-> row.lang, type |-> row.type,
    pos |-> row.pos, sentence |-> sentence, source_page |-> title ]

\* the page loop body without the false-positive filter
PageRecords_NoFilter(row, title, text) ==
  LET matches == GetSentences(text, row.term)
  IN  [k \in DOMAIN matches |-> MinedSentence(row, matches[k], title)]

\* lines 67-80: the records one fetched page adds to results
PageRecords(row, title, text) ==
  LET matches == GetSentences(text, row.term)
      passes(sentence) == ~IsSemanticFalsePositive(row.lemma, row.term, sentence)
      emitted == SelectSeq(matches, passes)
  IN  [k \in DOMAIN emitted |-> MinedSentence(row, emitted[k], title)]
----------------------------------------------------------------------------
(* json.dumps(obj, ensure_ascii=False) and json.loads(line) on the text of a *)
(* line: cleaner.py 100 and 118, main.py 105. An object is the sequence of  *)
(* its <<key, value>> pairs in insertion order, keys and values strings.    *)

QUOTE == "\""
BACKSLASH == "\\"

\* the character as written, without any escape
EscapeChar_None(c) == <<c>>

\* json.encoder ESCAPE_DCT: the escapes of a character inside a string;
\* with ensure_ascii=False every other character is written as it is
EscapeChar(c) ==
  CASE c = QUOTE -> <<BACKSLASH, QUOTE>>
    [] c = BACKSLASH -> <<BACKSLASH, BACKSLASH>>
    [] c = "\n" -> <<BACKSLASH, "n">>
    [] c = "\r" -> <<BACKSLASH, "r">>
    [] c = "\t" -> <<BACKSLASH, "t">>
    [] OTHER -> <<c>>

\* json.encoder.py_encode_basestring: the string between quotes, escaped
EncodeString(s) ==
  <<QUOTE>> \o Flatten([i \in DOMAIN s |-> EscapeChar(s[i])]) \o <<QUOTE>>

\* json.dumps of a dict: items joined by ", ", key and value by ": "
JsonDumps(obj) ==
  LET item(i) == (IF i = 1 THEN <<>> ELSE <<",", " ">>)
                 \o EncodeString(obj[i][1]) \o <<":", " ">> \o EncodeString(obj[i][2])
  IN  <<"{">> \o Flatten([i \in DOMAIN obj |-> item(i)]) \o <<"}">>

\* the number of backslashes that stand right before position i
BackslashesBefore(s, i) ==
  LET others == { j \in 1..(i - 1) : s[j] # BACKSLASH }
      last == IF others = {} THEN 0 ELSE CHOOSE j \in others : \A k \in others : k <= j
  IN  i - 1 - last

\* position i holds a character that an escaping backslash precedes
IsEscaped(s, i) == BackslashesBefore(s, i) % 2 = 1

\* json.decoder BACKSLASH: the character an escape stands for
Unescaped(c) ==
  CASE c = "n" -> "\n"
    [] c = "r" -> "\r"
    [] c = "t" -> "\t"
    [] OTHER -> c

\* json.decoder.py_scanstring accepts the text between two quotes: no raw
\* control character (strict), no escape other than the ones of BACKSLASH.
\* \b, \f and \uXXXX, which the sampled lines never hold, are left out.
ValidStringBody(raw) ==
  \A i \in DOMAIN raw :
    /\ raw[i] \notin {"\n", "\r", "\t"}
    /\ IsEscaped(raw, i) => raw[i] \in {QUOTE, BACKSLASH, "/", "n", "r", "t"}
    /\ (raw[i] = BACKSLASH /\ ~IsEscaped(raw, i)) => i < Len(raw)

\* json.decoder.py_scanstring: the string the text between two quotes denotes
DecodeString(raw) ==
  LET at == [i \in DOMAIN raw |-> <<i, raw[i]>>]
      stays(p) == ~(p[2] = BACKSLASH /\ ~IsEscaped(raw, p[1]))
      left == SelectSeq(at, stays)
  IN  [k \in DOMAIN left |->
        IF IsEscaped(raw, left[k][1]) THEN Unescaped(left[k][2]) ELSE left[k][2]]

\* the positions of the quotes that open or close a string
StringQuotes(line) == { i \in DOMAIN line : line[i] = QUOTE /\ ~IsEscaped(line, i) }

\* json.loads(line) of the text of an object whose values are strings:
\* [ok |-> FALSE] stands for json.JSONDecodeError
JsonLoads(text) ==
  LET line == Strip(text)
      quotes == StringQuotes(line)
      nth(n) == CHOOSE q \in quotes : Cardinality({ p \in quotes : p <= q }) = n
      count == Cardinality(quotes)
      items == count \div 4
      between(a, b) == SubSeq(line, a + 1, b - 1)
      blank(s) == \A i \in DOMAIN s : s[i] \in WHITESPACE
      \* the text between two strings is one separator among white space
      separator(s, c) == /\ Cardinality({ i \in DOMAIN s : s[i] = c }) = 1
                         /\ \A i \in DOMAIN s : s[i] = c \/ s[i] \in WHITESPACE
      wellformed ==
        /\ Len(line) >= 2 /\ line[1] = "{" /\ line[Len(line)] = "}"
        /\ count % 4 = 0
        /\ IF count = 0 THEN blank(between(1, Len(line)))
           ELSE /\ blank(between(1, nth(1)))
                /\ blank(between(nth(count), Len(line)))
                /\ \A n \in 1..items :
                     /\ ValidStringBody(between(nth(4 * n - 3), nth(4 * n - 2)))
                     /\ separator(between(nth(4 * n - 2), nth(4 * n - 1)), ":")
                     /\ ValidStringBody(between(nth(4 * n - 1), nth(4 * n)))
                     /\ n < items => separator(between(nth(4 * n), nth(4 * n + 1)), ",")
  IN  IF wellformed
      THEN [ok |-> TRUE,
            obj |-> [n \in 1..items |->
                      << DecodeString(between(nth(4 * n - 3), nth(4 * n - 2))),
                         DecodeString(between(nth(4 * n - 1), nth(4 * n))) >>]]
      ELSE [ok |-> FALSE, obj |-> <<>>]
----------------------------------------------------------------------------
(* src/analysis/plot.py: BorrowingPlots *)

UNINTEGRATED_TYPES ==
  {TypeTag("noun_raw"), TypeTag("noun_plural_english"), TypeTag("cs_latin_raw")}
LIGHT_VERB_TYPES ==
  {TypeTag("verb_light_construction"), TypeTag("verb_light_latin"),
   TypeTag("verb_light_greek")}
INTEGRATED_TYPES ==
  {TypeTag("noun_plural_native"), TypeTag("noun_integrated_sg"),
   TypeTag("noun_integrated_pl"), TypeTag("noun_transliterated"),
   TypeTag("verb_morph_prescriptive"), TypeTag("verb_morph_descriptive"),
   TypeTag("verb_participle_prescriptive"), TypeTag("verb_participle_descriptive"),
   TypeTag("verb_morph_integrated"), TypeTag("verb_habitual"),
   TypeTag("verb_morph_aro"), TypeTag("verb_participle")}

\* _map_integration with the third list cut after verb_habitual
MapIntegration_NoGreekVerbs(t) ==
  IF t \in UNINTEGRATED_TYPES THEN "1. Unintegrated"
  ELSE IF t \in LIGHT_VERB_TYPES THEN "2. Accommodated (light verb)"
  ELSE IF t \in INTEGRATED_TYPES \ {TypeTag("verb_morph_aro"), TypeTag("verb_participle")}
    THEN "3. Highly integrated"
  ELSE "Other"

\* BorrowingPlots._map_integration
MapIntegration(t) ==
  IF t \in UNINTEGRATED_TYPES THEN "1. Unintegrated"
  ELSE IF t \in LIGHT_VERB_TYPES THEN "2. Accommodated (light verb)"
  ELSE IF t \in INTEGRATED_TYPES THEN "3. Highly integrated"
  ELSE "Other"

\* the list of _map_spelling
RETAINED_TYPES ==
  {TypeTag("noun_raw"), TypeTag("noun_plural_english"), TypeTag("cs_latin_raw"),
   TypeTag("verb_light_construction"), TypeTag("verb_light_latin"),
   TypeTag("verb_light_greek")}

\* BorrowingPlots._map_spelling
MapSpelling(t) ==
  IF t \in RETAINED_TYPES
  THEN "Retained (foreignization)"
  ELSE "Modified (nativization)"

----------------------------------------------------------------------------
(* Bounds and sampled inputs *)

MaxRoots == 2
MaxRows == 2
MaxPieces == 3
MaxFill == 9
MaxSemWords == 2
MaxLines == 3

SeqsUpTo(S, n) == UNION { [1..k -> S] : k \in 0..n }

\* words joined by single spaces
RECURSIVE JoinWords(_)
JoinWords(ws) ==
  IF ws = <<>> THEN <<>>
  ELSE IF Len(ws) = 1 THEN ws[1]
  ELSE ws[1] \o <<" ">> \o JoinWords(Tail(ws))

\* roots a root list is drawn from: "click" of ALL_ROOTS, and "klik", whose
\* Basque forms collide with those of "click"
SampleRoots == {W_click, W_klik}

RootLists == SeqsUpTo(SampleRoots, MaxRoots) \ {<<>>}

\* roots generate_for_root is called on
W_data == <<"d", "a", "t", "a">>
CallRoots == Range(ALL_ROOTS) \cup {W_klik, W_shop, W_quiz, W_data}

SampleRows ==
  { [term |-> W_app, target_lang |-> "ast", origin_lang |-> W_en],
    [term |-> W_app, target_lang |-> "ast", origin_lang |-> W_es],
    [term |-> W_app, target_lang |-> "fr", origin_lang |-> W_en],
    [term |-> W_click, target_lang |-> "ast", origin_lang |-> W_en] }

WiktionaryFiles ==
  {Absent} \cup { File(rows) : rows \in SeqsUpTo(SampleRows, MaxRows) \ {<<>>} }

\* the words and phrases the sentences given to is_english are made of
EnglishPieces ==
  <<<<"T", "h", "e">>,
    <<"o", "f">>,
    <<"h", "o", "w">>,
    <<"a", "n">>,
    <<"o", "u", "r">>,
    <<"R", "e", "f", "e", "r", "e", "n", "c", "e", "s">>,
    <<"r", "e", "f", "e", "r", "e", "n", "c", "e", "s", "2">>,
    <<"R", "e", "t", "r", "i", "e", "v", "e", "d", " ", "f", "r", "o", "m">>,
    <<"t", "o", "n", "g", "u", "e", " ", "b", "o", "d", "y">>,
    <<"gr_kappa", "gr_alpha", "gr_iota">>>>
W_casa == <<"c", "a", "s", "a">>

\* the pieces of a sentence, in the order of EnglishPieces
EnglishPieceLists ==
  { ps \in SeqsUpTo(DOMAIN EnglishPieces, MaxPieces) :
      \A i \in 1..(Len(ps) - 1) : ps[i] <= ps[i + 1] }

\* the pieces ps, then fill times the word "casa", then a full stop
MakeSentence(ps, fill) ==
  LET ws == [i \in DOMAIN ps |-> EnglishPieces[ps[i]]] \o [i \in 1..fill |-> W_casa]
  IN  IF ws = <<>> THEN <<>> ELSE JoinWords(ws) \o <<".">>

EnglishSentences ==
  { MakeSentence(ps, fill) : ps \in EnglishPieceLists, fill \in 0..MaxFill }

\* the words and phrases the sentences given to is_false_positive are made of
SemPieces ==
  {<<"B", "u", "g", "s", " ", "B", "u", "n", "n", "y">>,
   <<"c", "o", "n", "e", "y", "u">>,
   <<"i", "n", "t", "e", "r", "n", "e", "t">>,
   <<"g", "o", "l">>}

SemSentences == { JoinWords(ws) : ws \in SeqsUpTo(SemPieces, MaxSemWords) }

SemTerms ==
  {<<"p", "o", "s", "t", "e", "s">>,
   <<"p", "o", "s", "t", "i", "a_acute", "u">>,
   <<"b", "a", "n", "a", "k">>,
   <<"gr_alpha", "gr_pi">>,
   <<"b", "u", "g">>}
SemLemmas ==
  {<<"p", "o", "s", "t">>,
   <<"b", "a", "n">>,
   <<"b", "u", "g">>,
   <<"a", "p", "p">>}

SemEntries ==
  { [term |-> t, lemma |-> l, lang |-> g, sentence |-> s] :
      t \in SemTerms, l \in SemLemmas, g \in TARGET_LANGS, s \in SemSentences }

\* mined records: two that both filters pass, one in English, one about Bugs
\* Bunny, one flagged by both filters, one without its sentence field
E_keep1 ==
  [ term |-> <<"c", "l", "i", "c", "k">>,
    lemma |-> <<"c", "l", "i", "c", "k">>,
    lang |-> "ast",
    type |-> <<"n", "o", "u", "n", "_", "r", "a", "w">>,
    pos |-> "NOUN",
    sentence |->
      <<"F", "a", "i", " ", "c", "l", "i", "c", "k", " ", "n", "a", " ", "w", "e", "b", ".">>,
    source_page |-> <<"W", "e", "b">> ]
E_keep2 ==
  [ term |-> <<"k", "l", "i", "k", "a">>,
    lemma |-> <<"c", "l", "i", "c", "k">>,
    lang |-> "eu",
    type |-> <<"n", "o", "u", "n", "_", "i", "n", "t", "e", "g", "r", "a", "t", "e", "d", "_", "s", "g">>,
    pos |-> "NOUN",
    sentence |->
      <<"K", "l", "i", "k", "a", " ", "e", "g", "i", "n", " ", "z", "u", "e", "n", ".">>,
    source_page |-> <<"S", "a", "g", "u">> ]
E_english ==
  [ term |-> <<"c", "l", "i", "c", "k">>,
    lemma |-> <<"c", "l", "i", "c", "k">>,
    lang |-> "ast",
    type |-> <<"n", "o", "u", "n", "_", "r", "a", "w">>,
    pos |-> "NOUN",
    sentence |->
      <<"U", "s", "e", "r", "s", " ", "c", "a", "n", " ", "c", "l", "i", "c", "k", " ", "t", "h", "e", " ", "b", "u", "t", "t", "o", "n", " ", "t", "o", " ", "p", "r", "o", "c", "e", "e", "d", ".">>,
    source_page |-> <<"W", "e", "b">> ]
E_semantic ==
  [ term |-> <<"b", "u", "g">>,
    lemma |-> <<"b", "u", "g">>,
    lang |-> "ast",
    type |-> <<"n", "o", "u", "n", "_", "r", "a", "w">>,
    pos |-> "NOUN",
    sentence |->
      <<"B", "u", "g", "s", " ", "B", "u", "n", "n", "y", " ", "y", "e", " ", "u", "n", " ", "c", "o", "n", "e", "y", "u", ".">>,
    source_page |-> <<"B", "u", "g", "s">> ]
E_both ==
  [ term |-> <<"b", "u", "g">>,
    lemma |-> <<"b", "u", "g">>,
    lang |-> "ast",
    type |-> <<"n", "o", "u", "n", "_", "r", "a", "w">>,
    pos |-> "NOUN",
    sentence |->
      <<"T", "h", "e", " ", "B", "u", "g", "s", " ", "B", "u", "n", "n", "y", " ", "o", "f", " ", "t", "h", "e", " ", "r", "i", "v", "e", "r", ".">>,
    source_page |-> <<"B", "u", "g", "s">> ]
E_nosentence ==
  [ term |-> <<"b", "u", "g">>,
    lemma |-> <<"b", "u", "g">>,
    lang |-> "ast",
    type |-> <<"n", "o", "u", "n", "_", "r", "a", "w">>,
    pos |-> "NOUN",
    source_page |-> <<"B", "u", "g", "s">> ]

\* a line whose JSON value is the number 5
L_number == [kind |-> "json", fmt |-> "dumps", obj |-> [json_scalar |-> "5"]]

SampleLines ==
  { [kind |-> "blank"],
    [kind |-> "garbage"],
    Dumps(E_keep1),
    [kind |-> "json", fmt |-> "spaced", obj |-> E_keep2],
    Dumps(E_english),
    Dumps(E_semantic),
    Dumps(E_both),
    Dumps(E_nosentence),
    L_number }

MinedFiles == { File(ls) : ls \in SeqsUpTo(SampleLines, MaxLines) }

\* a clean file left by an earlier run
OldCleanFile == File(<<Dumps(E_keep2)>>)

\* args.step
Steps == {"scrape", "generate", "mine", "clean", "analyze", "all"}

\* the root list of the runs of __main__
MainRoots == <<W_click>>

\* what the Wiktionary API returns to one run of scrape()
ScrapeResults == { <<[term |-> W_app, target_lang |-> "ast", origin_lang |-> W_en]>> }

\* what search_and_extract returns in one run, the network deciding
MiningOutcomes == { <<>>, <<E_keep1, E_english>> }

\* files left by earlier runs
OldSeedsFile == File(DropDuplicates(GenerateAll("eu", MainRoots)))
OldMinedFiles == { File(<<Dumps(E_keep1)>>), File(<<Dumps(E_nosentence)>>) }

----------------------------------------------------------------------------
(* Sampled inputs of the miner *)

MaxSegments == 2
MaxSeeds == 2

W_bug == <<"b", "u", "g">>

\* n times the letter x
Padding(n) == [i \in 1..n |-> "x"]

\* a sentence of n characters that starts with the word "click"
ClickSentence(n) == W_click \o <<" ">> \o Padding(n - 7) \o <<".">>

\* the pieces page texts are made of: sentences at and next to the two length
\* bounds, the term in another case, inside a longer word, absent, without
\* final punctuation and behind leading spaces
TextPieces ==
  { ClickSentence(MinSentenceLen), ClickSentence(MinSentenceLen + 1),
    ClickSentence(MaxSentenceLen - 1), ClickSentence(MaxSentenceLen),
    <<"F", "a", "i", " ", "C", "l", "i", "c", "k", " ", "n", "a", " ", "w", "e", "b", ".">>,
    <<"L", "o", "s", " ", "c", "l", "i", "c", "k", "s", " ", "c", "u", "e", "n", "t", "e", "n", "?">>,
    <<" ", " ", "c", "l", "i", "c", "k", " ", "a", "q", "u", "i">> }

\* what stands between two pieces
Separators == {<<" ">>, <<"\n">>}

RECURSIVE JoinPieces(_, _)
JoinPieces(ps, seps) ==
  IF Len(ps) = 1 THEN ps[1]
  ELSE ps[1] \o seps[1] \o JoinPieces(Tail(ps), Tail(seps))

\* page.text as given to _get_sentences
SampleTexts ==
  {<<>>} \cup
  { JoinPieces(ps, seps) :
      <<ps, seps>> \in { pr \in SeqsUpTo(TextPieces, MaxSegments) \X SeqsUpTo(Separators, MaxSegments - 1) :
                           Len(pr[1]) >= 1 /\ Len(pr[2]) = Len(pr[1]) - 1 } }

W_web == <<"w", "e", "b">>

SampleTerms == {W_click, W_web}

\* the rows of seeds_df the miner is run on
SampleSeeds ==
  { MakeSeed("ast", W_click, W_click, TypeTag("noun_raw"), "NOUN"),
    MakeSeed("ast", W_bug, W_bug, TypeTag("noun_raw"), "NOUN") }

SeedTables == SeqsUpTo(SampleSeeds, MaxSeeds)

T_Web == <<"W", "e", "b">>
T_Bugs == <<"B", "u", "g", "s">>
T_Nada == <<"N", "a", "d", "a">>
T_Click == <<"C", "l", "i", "c", "k">>

\* the wiki of the run: what page.exists() and page.text give for a title
WikiPage(title) ==
  CASE title = T_Web ->
         [exists |-> TRUE,
          text |-> <<"F", "a", "i", " ", "C", "l", "i", "c", "k", " ", "n", "a", " ", "w", "e", "b", ".", " ", "U", "n", " ", "b", "u", "g", " ", "n", "e", "l", " ", "p", "r", "o", "g", "r", "a", "m", "a", "!", " ", "L", "o", "s", " ", "c", "l", "i", "c", "k", "s", " ", "c", "u", "e", "n", "t", "e", "n", ".">>]
    [] title = T_Bugs ->
         [exists |-> TRUE,
          text |-> <<"E", "l", " ", "b", "u", "g", " ", "d", "e", " ", "B", "u", "g", "s", " ", "B", "u", "n", "n", "y", " ", "y", "e", " ", "f", "a", "m", "o", "s", "u", ".", " ", "U", "n", " ", "b", "u", "g", " ", "n", "e", "l", " ", "p", "r", "o", "g", "r", "a", "m", "a", "!", "\n", "U", "n", " ", "b", "u", "g", " ", "n", "e", "l", " ", "p", "r", "o", "g", "r", "a", "m", "a", "!">>]
    [] title = T_Click ->
         [exists |-> TRUE,
          text |-> <<"U", "n", " ", "c", "l", "i", "c", "k", " ", "a", "b", "r", "e", " ", "l", "a", " ", "w", "e", "b", ".", " ", "E", "l", " ", "b", "u", "g", " ", "y", "e", " ", "v", "i", "e", "y", "u", ".">>]
    [] OTHER -> [exists |-> FALSE, text |-> <<>>]

\* the title lists the search API answers with
TitleLists == { <<>>, <<T_Web>>, <<T_Nada, T_Web>>, <<T_Web, T_Bugs, T_Click>> }

\* the longest sampled sentence of a record that is written as a line
MaxValueLen == 2

\* the characters sampled sentences are made of: the ones json.dumps escapes,
\* the ones that delimit JSON text, a letter that follows a backslash in an
\* escape, and a letter outside ASCII
JsonChars == {QUOTE, BACKSLASH, "\n", "n", ",", ":", "}", " ", "e_acute"}

JsonSentences == SeqsUpTo(JsonChars, MaxValueLen)

\* a page title that ends in a backslash
T_backslash == <<"A", BACKSLASH>>

\* the records of results.append (miner.py 72-80), keys in insertion order
JsonEntries ==
  { << <<<<"t", "e", "r", "m">>, term>>,
       <<<<"l", "e", "m", "m", "a">>, W_click>>,
       <<<<"l", "a", "n", "g">>, <<"e", "l">>>>,
       <<<<"t", "y", "p", "e">>, TypeTag("noun_transliterated")>>,
       <<<<"p", "o", "s">>, <<"N", "O", "U", "N">>>>,
       <<<<"s", "e", "n", "t", "e", "n", "c", "e">>, sentence>>,
       <<<<"s", "o", "u", "r", "c", "e", "_", "p", "a", "g", "e">>, title>> >> :
    term \in {W_click, <<"gr_kappa", "gr_lamda", "gr_iota", "gr_kappa">>},
    sentence \in JsonSentences,
    title \in {T_Web, T_backslash} }
----------------------------------------------------------------------------
(* State machines *)

CallIdle == gen_lang = None /\ gen_root = <<>> /\ H = <<>>
GenRunIdle == roots = <<>> /\ all_seeds = <<>> /\ gen_pc = "idle"
EngIdle == arg_sentence = <<>> /\ eng_pc = "idle" /\ is_english_ret = FALSE
SemIdle == arg_entry = [lang |-> ""] /\ sem_pc = "idle" /\ is_false_positive_ret = FALSE
CleanRunIdle ==
  kept = <<>> /\ dropped_eng = 0 /\ dropped_sem = 0 /\ line_no = 0 /\ clean_pc = "idle"
MainIdle ==
  step = None /\ main_pc = "idle" /\ entered = <<>> /\ stdout = <<>> /\ searches = 0
MinerIdle ==
  /\ seeds_df = <<>> /\ seed_idx = 0 /\ found_titles = <<>> /\ title_idx = 0
  /\ results = <<>> /\ calls = <<>> /\ miner_pc = "idle"
SentIdle ==
  arg_text = <<>> /\ arg_term = <<>> /\ get_sentences_ret = <<>> /\ sent_pc = "idle"
RerunIdle == run_no = 0 /\ first_run = [stage |-> None]
JsonIdle == arg_obj = <<>> /\ json_line = <<>> /\ json_back = <<>> /\ json_pc = "idle"
OtherIdle == MinerIdle /\ SentIdle /\ RerunIdle /\ JsonIdle
FilesAbsent ==
  /\ wiktionary_file = Absent /\ seeds_file = Absent
  /\ mined_file = Absent /\ clean_file = Absent

(* one call gen.generate_for_root(root) *)

GenerateForRootCall ==
  /\ \E g \in Range(GENERATORS), r \in CallRoots :
       /\ gen_lang' = g
       /\ gen_root' = r
       /\ H' = GenerateForRoot(g, r)
  /\ UNCHANGED <<genRunVars, engVars, semVars, cleanRunVars, mainVars, fileVars>>
  /\ UNCHANGED otherVars

InitGen ==
  /\ CallIdle /\ GenRunIdle /\ EngIdle /\ SemIdle /\ CleanRunIdle /\ MainIdle /\ FilesAbsent
  /\ OtherIdle
NextGen == GenerateForRootCall
SpecGen == InitGen /\ [][NextGen]_vars

(* run_generation *)

\* lines 60-65: the synthetic seeds of the three generators
GenerateSynthetic ==
  /\ gen_pc = "start"
  /\ all_seeds' = Flatten([i \in DOMAIN GENERATORS |-> GenerateAll(GENERATORS[i], roots)])
  /\ gen_pc' = "wiktionary"
  /\ UNCHANGED <<roots, callVars, engVars, semVars, cleanRunVars, mainVars, fileVars>>
  /\ UNCHANGED otherVars

\* lines 67-76: the dictionary-sourced seeds
LoadWiktionary ==
  /\ gen_pc = "wiktionary"
  /\ LET wik_seeds == LoadSeeds(wiktionary_file, TARGET_LANGS)
     IN  all_seeds' = IF wik_seeds # <<>> THEN all_seeds \o wik_seeds ELSE all_seeds
  /\ gen_pc' = "dedup"
  /\ UNCHANGED <<roots, callVars, engVars, semVars, cleanRunVars, mainVars, fileVars>>
  /\ UNCHANGED otherVars

\* lines 78-81: dedup and write of the seed table
WriteSeeds ==
  /\ gen_pc = "dedup"
  /\ seeds_file' = WriteFile(seeds_file, DropDuplicates(all_seeds))
  /\ gen_pc' = "done"
  /\ UNCHANGED <<roots, all_seeds, wiktionary_file, mined_file, clean_file>>
  /\ UNCHANGED <<callVars, engVars, semVars, cleanRunVars, mainVars>>
  /\ UNCHANGED otherVars

InitSeeds ==
  /\ CallIdle /\ EngIdle /\ SemIdle /\ CleanRunIdle /\ MainIdle
  /\ roots \in RootLists
  /\ wiktionary_file \in WiktionaryFiles
  /\ all_seeds = <<>>
  /\ gen_pc = "start"
  /\ seeds_file = Absent /\ mined_file = Absent /\ clean_file = Absent
  /\ OtherIdle
NextSeeds == GenerateSynthetic \/ LoadWiktionary \/ WriteSeeds
SpecSeeds == InitSeeds /\ [][NextSeeds]_vars

(* one call eng_filter.is_english(sentence) *)

IsEnglishCall ==
  /\ eng_pc = "call"
  /\ is_english_ret' = IsEnglish(arg_sentence)
  /\ eng_pc' = "return"
  /\ UNCHANGED <<arg_sentence, callVars, genRunVars, semVars, cleanRunVars, mainVars, fileVars>>
  /\ UNCHANGED otherVars

InitEnglish ==
  /\ CallIdle /\ GenRunIdle /\ SemIdle /\ CleanRunIdle /\ MainIdle /\ FilesAbsent
  /\ arg_sentence \in EnglishSentences
  /\ eng_pc = "call"
  /\ is_english_ret = FALSE
  /\ OtherIdle
NextEnglish == IsEnglishCall
SpecEnglish == InitEnglish /\ [][NextEnglish]_vars

(* one call sem_filter.is_false_positive(entry) *)

IsFalsePositiveCall ==
  /\ sem_pc = "call"
  /\ is_false_positive_ret' = IsFalsePositive(arg_entry)
  /\ sem_pc' = "return"
  /\ UNCHANGED <<arg_entry, callVars, genRunVars, engVars, cleanRunVars, mainVars, fileVars>>
  /\ UNCHANGED otherVars

InitSemantic ==
  /\ CallIdle /\ GenRunIdle /\ EngIdle /\ CleanRunIdle /\ MainIdle /\ FilesAbsent
  /\ arg_entry \in SemEntries
  /\ sem_pc = "call"
  /\ is_false_positive_ret = FALSE
  /\ OtherIdle
NextSemantic == IsFalsePositiveCall
SpecSemantic == InitSemantic /\ [][NextSemantic]_vars

(* MiningCleaner.clean_file(MINED_FILE, CLEAN_FILE) *)

\* lines 96-114: one pass of the loop over the lines of the input file
CleanReadLine ==
  /\ clean_pc = "read"
  /\ line_no <= Len(mined_file.content)
  /\ LET line == mined_file.content[line_no]
     IN  IF IsBlank(line) \/ RaisesJSONDecodeError(line)
         THEN /\ line_no' = line_no + 1
              /\ UNCHANGED <<kept, dropped_eng, dropped_sem, clean_pc>>
         ELSE IF RaisesOnSentence(Loads(line))
         THEN /\ clean_pc' = "raised"
              /\ UNCHANGED <<kept, dropped_eng, dropped_sem, line_no>>
         ELSE LET obj == Loads(line)
                  class == Classify(obj)
              IN  /\ line_no' = line_no + 1
                  /\ dropped_eng' = IF class = "english" THEN dropped_eng + 1 ELSE dropped_eng
                  /\ dropped_sem' = IF class = "semantic" THEN dropped_sem + 1 ELSE dropped_sem
                  /\ kept' = IF class = "keep" THEN Append(kept, obj) ELSE kept
                  /\ UNCHANGED clean_pc
  /\ UNCHANGED <<callVars, genRunVars, engVars, semVars, mainVars, fileVars>>
  /\ UNCHANGED otherVars

\* lines 116-120: the output file is written once the input is exhausted
CleanWrite ==
  /\ clean_pc = "read"
  /\ line_no > Len(mined_file.content)
  /\ clean_file' = WriteFile(clean_file, [k \in DOMAIN kept |-> Dumps(kept[k])])
  /\ clean_pc' = "done"
  /\ UNCHANGED <<kept, dropped_eng, dropped_sem, line_no>>
  /\ UNCHANGED <<wiktionary_file, seeds_file, mined_file>>
  /\ UNCHANGED <<callVars, genRunVars, engVars, semVars, mainVars>>
  /\ UNCHANGED otherVars

InitClean ==
  /\ CallIdle /\ GenRunIdle /\ EngIdle /\ SemIdle /\ MainIdle
  /\ wiktionary_file = Absent /\ seeds_file = Absent
  /\ mined_file \in MinedFiles
  /\ clean_file \in {Absent, OldCleanFile}
  /\ kept = <<>> /\ dropped_eng = 0 /\ dropped_sem = 0
  /\ line_no = 1
  /\ clean_pc = "read"
  /\ OtherIdle
NextClean == CleanReadLine \/ CleanWrite
SpecClean == InitClean /\ [][NextClean]_vars

(* __main__: the pipeline runner and its stages *)

\* lines 186-187, run_scraping: the request succeeds and the CSV is written,
\* or requests.get raises and nothing catches it
MainScrape ==
  /\ main_pc = "scrape"
  /\ IF step \in {"scrape", "all"}
     THEN /\ entered' = Append(entered, "scrape")
          /\ \/ /\ \E rows \in ScrapeResults : wiktionary_file' = File(rows)
                /\ main_pc' = "generate"
             \/ /\ main_pc' = "aborted"
                /\ UNCHANGED wiktionary_file
     ELSE /\ main_pc' = "generate"
          /\ UNCHANGED <<entered, wiktionary_file>>
  /\ UNCHANGED <<step, stdout, searches, seeds_file, mined_file, clean_file>>
  /\ UNCHANGED <<callVars, genRunVars, engVars, semVars, cleanRunVars>>
  /\ UNCHANGED otherVars

\* lines 189-190: run_generation is entered
MainGenerate ==
  /\ main_pc = "generate"
  /\ IF step \in {"generate", "all"}
     THEN /\ entered' = Append(entered, "generate")
          /\ all_seeds' = <<>>
          /\ gen_pc' = "start"
          /\ main_pc' = "in_generate"
     ELSE /\ main_pc' = "mine"
          /\ UNCHANGED <<entered, all_seeds, gen_pc>>
  /\ UNCHANGED <<roots, step, stdout, searches>>
  /\ UNCHANGED <<callVars, engVars, semVars, cleanRunVars, fileVars>>
  /\ UNCHANGED otherVars

\* run_generation returns
MainGenerateReturn ==
  /\ main_pc = "in_generate"
  /\ gen_pc = "done"
  /\ gen_pc' = "idle"
  /\ main_pc' = "mine"
  /\ UNCHANGED <<roots, all_seeds, step, entered, stdout, searches>>
  /\ UNCHANGED <<callVars, engVars, semVars, cleanRunVars, fileVars>>
  /\ UNCHANGED otherVars

\* run_mining with the existence test of lines 92-94 left out
RunMining_NoExistsTest ==
  /\ searches' = searches + 1
  /\ \E found \in MiningOutcomes :
       mined_file' = File([i \in DOMAIN found |-> Dumps(found[i])])
  /\ main_pc' = "clean"
  /\ UNCHANGED stdout

\* run_mining with the output opened before the seeds are mined: an error
\* of the mining leaves the file truncated
RunMining_OpenFirst ==
  IF ~seeds_file.exists
  THEN /\ stdout' = Append(stdout, "seeds_not_found")
       /\ main_pc' = "clean"
       /\ UNCHANGED <<searches, mined_file>>
  ELSE \/ /\ searches' = searches + Len(seeds_file.content)
          /\ \E found \in MiningOutcomes :
               mined_file' = File([i \in DOMAIN found |-> Dumps(found[i])])
          /\ main_pc' = "clean"
          /\ UNCHANGED stdout
       \/ /\ \E n \in 0..Len(seeds_file.content) : searches' = searches + n
          /\ mined_file' = File(<<>>)
          /\ main_pc' = "aborted"
          /\ UNCHANGED stdout

\* run_mining, lines 89-108: the seeds are read and mined, one search per
\* seed, and the results are written at the end (open(MINED_FILE, "w"),
\* line 103); or pd.read_csv, the construction of the miner or
\* search_and_extract raises before that line and nothing catches it
RunMining ==
  IF ~seeds_file.exists
  THEN /\ stdout' = Append(stdout, "seeds_not_found")
       /\ main_pc' = "clean"
       /\ UNCHANGED <<searches, mined_file>>
  ELSE \/ /\ searches' = searches + Len(seeds_file.content)
          /\ \E found \in MiningOutcomes :
               mined_file' = File([i \in DOMAIN found |-> Dumps(found[i])])
          /\ main_pc' = "clean"
          /\ UNCHANGED stdout
       \/ /\ \E n \in 0..Len(seeds_file.content) : searches' = searches + n
          /\ main_pc' = "aborted"
          /\ UNCHANGED <<stdout, mined_file>>

\* lines 192-193
MainMine ==
  /\ main_pc = "mine"
  /\ IF step \in {"mine", "all"}
     THEN /\ entered' = Append(entered, "mine")
          /\ RunMining
     ELSE /\ main_pc' = "clean"
          /\ UNCHANGED <<entered, stdout, searches, mined_file>>
  /\ UNCHANGED <<step, wiktionary_file, seeds_file, clean_file>>
  /\ UNCHANGED <<callVars, genRunVars, engVars, semVars, cleanRunVars>>
  /\ UNCHANGED otherVars

\* run_cleaning, lines 111-118: the diagnostic and return, or clean_file called
RunCleaningEnter ==
  IF ~mined_file.exists
  THEN /\ stdout' = Append(stdout, "mined_not_found")
       /\ main_pc' = "stats"
       /\ UNCHANGED cleanRunVars
  ELSE /\ kept' = <<>> /\ dropped_eng' = 0 /\ dropped_sem' = 0
       /\ line_no' = 1
       /\ clean_pc' = "read"
       /\ main_pc' = "in_clean"
       /\ UNCHANGED stdout

\* lines 195-196
MainClean ==
  /\ main_pc = "clean"
  /\ IF step \in {"clean", "all"}
     THEN /\ entered' = Append(entered, "clean")
          /\ RunCleaningEnter
     ELSE /\ main_pc' = "stats"
          /\ UNCHANGED <<entered, stdout, cleanRunVars>>
  /\ UNCHANGED <<step, searches>>
  /\ UNCHANGED <<callVars, genRunVars, engVars, semVars, fileVars>>
  /\ UNCHANGED otherVars

\* clean_file returns and run_cleaning prints the counts
MainCleanReturn ==
  /\ main_pc = "in_clean"
  /\ clean_pc = "done"
  /\ clean_pc' = "idle"
  /\ main_pc' = "stats"
  /\ UNCHANGED <<kept, dropped_eng, dropped_sem, line_no>>
  /\ UNCHANGED <<step, entered, stdout, searches>>
  /\ UNCHANGED <<callVars, genRunVars, engVars, semVars, fileVars>>
  /\ UNCHANGED otherVars

\* clean_file raises: neither run_cleaning nor __main__ catches it
MainCleanRaise ==
  /\ main_pc = "in_clean"
  /\ clean_pc = "raised"
  /\ main_pc' = "aborted"
  /\ UNCHANGED <<step, entered, stdout, searches>>
  /\ UNCHANGED <<callVars, genRunVars, engVars, semVars, cleanRunVars, fileVars>>
  /\ UNCHANGED otherVars

\* lines 198-199, run_stats (lines 127-135); the report itself is not modelled
MainStats ==
  /\ main_pc = "stats"
  /\ IF step \in {"analyze", "all"}
     THEN /\ entered' = Append(entered, "stats")
          /\ stdout' = IF ~seeds_file.exists THEN Append(stdout, "seeds_missing") ELSE stdout
          /\ main_pc' = "analysis"
     ELSE /\ main_pc' = "exit"
          /\ UNCHANGED <<entered, stdout>>
  /\ UNCHANGED <<step, searches>>
  /\ UNCHANGED <<callVars, genRunVars, engVars, semVars, cleanRunVars, fileVars>>
  /\ UNCHANGED otherVars

\* line 200, run_analysis (lines 138-171); the plots are not modelled.  Every
\* non-blank line of the clean file goes through json.loads, uncaught
MainAnalysis ==
  /\ main_pc = "analysis"
  /\ entered' = Append(entered, "analysis")
  /\ IF ~clean_file.exists
     THEN /\ stdout' = Append(stdout, "clean_not_found")
          /\ main_pc' = "exit"
     ELSE IF \E i \in DOMAIN clean_file.content : RaisesJSONDecodeError(clean_file.content[i])
     THEN /\ main_pc' = "aborted"
          /\ UNCHANGED stdout
     ELSE /\ stdout' = IF \A i \in DOMAIN clean_file.content : IsBlank(clean_file.content[i])
                       THEN Append(stdout, "clean_empty") ELSE stdout
          /\ main_pc' = "exit"
  /\ UNCHANGED <<step, searches>>
  /\ UNCHANGED <<callVars, genRunVars, engVars, semVars, cleanRunVars, fileVars>>
  /\ UNCHANGED otherVars

\* the environment: between two stages a file of the data directory is removed
ExternalRemove ==
  /\ main_pc \in {"generate", "mine", "clean", "stats", "analysis"}
  /\ \/ /\ wiktionary_file.exists /\ wiktionary_file' = Absent
        /\ UNCHANGED <<seeds_file, mined_file, clean_file>>
     \/ /\ seeds_file.exists /\ seeds_file' = Absent
        /\ UNCHANGED <<wiktionary_file, mined_file, clean_file>>
     \/ /\ mined_file.exists /\ mined_file' = Absent
        /\ UNCHANGED <<wiktionary_file, seeds_file, clean_file>>
     \/ /\ clean_file.exists /\ clean_file' = Absent
        /\ UNCHANGED <<wiktionary_file, seeds_file, mined_file>>
  /\ UNCHANGED <<callVars, genRunVars, engVars, semVars, cleanRunVars, mainVars>>
  /\ UNCHANGED otherVars

InitMain ==
  /\ CallIdle /\ EngIdle /\ SemIdle /\ CleanRunIdle
  /\ roots = MainRoots /\ all_seeds = <<>> /\ gen_pc = "idle"
  /\ step \in Steps
  /\ main_pc = "scrape"
  /\ entered = <<>> /\ stdout = <<>> /\ searches = 0
  /\ wiktionary_file \in {Absent} \cup { File(rows) : rows \in ScrapeResults }
  /\ seeds_file \in {Absent, OldSeedsFile}
  /\ mined_file \in {Absent} \cup OldMinedFiles
  /\ clean_file \in {Absent, OldCleanFile}
  /\ OtherIdle
NextMain ==
  \/ MainScrape \/ MainGenerate \/ MainGenerateReturn
  \/ GenerateSynthetic \/ LoadWiktionary \/ WriteSeeds
  \/ MainMine
  \/ MainClean \/ MainCleanReturn \/ MainCleanRaise
  \/ CleanReadLine \/ CleanWrite
  \/ MainStats \/ MainAnalysis
  \/ ExternalRemove
SpecMain == InitMain /\ [][NextMain]_vars

(* one call self._get_sentences(text, term) *)

GetSentencesCall ==
  /\ sent_pc = "call"
  /\ get_sentences_ret' = GetSentences(arg_text, arg_term)
  /\ sent_pc' = "return"
  /\ UNCHANGED <<arg_text, arg_term>>
  /\ UNCHANGED <<callVars, genRunVars, engVars, semVars, cleanRunVars, mainVars, fileVars>>
  /\ UNCHANGED <<minerVars, rerunVars, jsonVars>>

InitSentences ==
  /\ CallIdle /\ GenRunIdle /\ EngIdle /\ SemIdle /\ CleanRunIdle /\ MainIdle /\ FilesAbsent
  /\ MinerIdle /\ RerunIdle /\ JsonIdle
  /\ arg_text \in SampleTexts
  /\ arg_term \in SampleTerms
  /\ get_sentences_ret = <<>>
  /\ sent_pc = "call"
NextSentences == GetSentencesCall
SpecSentences == InitSentences /\ [][NextSentences]_vars

(* WikipediaMiner.search_and_extract(seeds_df, limit_per_seed) *)

\* line 41: the default of the parameter limit_per_seed
limit_per_seed == 2

\* the row after the one under way, or the return of line 90
NextSeed ==
  /\ seed_idx' = seed_idx + 1
  /\ miner_pc' = IF seed_idx + 1 > Len(seeds_df) THEN "done" ELSE "search"
  /\ found_titles' = <<>>
  /\ title_idx' = 0

\* the title after the one under way, or the next row
NextTitle ==
  IF title_idx < Len(found_titles)
  THEN /\ title_idx' = title_idx + 1
       /\ UNCHANGED <<seed_idx, found_titles, miner_pc>>
  ELSE NextSeed

\* lines 55-58, 105-116: requests.get or r.json() raises (a timeout, a
\* connection error, a body that is not JSON); _search_wiki_titles returns []
MinerSearchFails ==
  /\ miner_pc = "search"
  /\ calls' = Append(calls, [kind |-> "search", seed |-> seed_idx, title |-> <<>>,
                             titles |-> <<>>, ok |-> FALSE,
                             srlimit |-> limit_per_seed])
  /\ NextSeed
  /\ UNCHANGED <<seeds_df, results>>
  /\ UNCHANGED <<callVars, genRunVars, engVars, semVars, cleanRunVars, mainVars, fileVars>>
  /\ UNCHANGED <<sentVars, rerunVars, jsonVars>>

\* a search that asks for one title more than limit_per_seed
MinerSearchReturns_NoLimit ==
  /\ miner_pc = "search"
  /\ \E titles \in TitleLists :
       /\ calls' = Append(calls, [kind |-> "search", seed |-> seed_idx, title |-> <<>>,
                                  titles |-> titles, ok |-> TRUE,
                                  srlimit |-> limit_per_seed + 1])
       /\ IF titles = <<>>
          THEN NextSeed
          ELSE /\ found_titles' = titles
               /\ title_idx' = 1
               /\ miner_pc' = "pages"
               /\ UNCHANGED seed_idx
  /\ UNCHANGED <<seeds_df, results>>
  /\ UNCHANGED <<callVars, genRunVars, engVars, semVars, cleanRunVars, mainVars, fileVars>>
  /\ UNCHANGED <<sentVars, rerunVars, jsonVars>>

\* lines 55-61, 105-114: the search answers with a list of titles
MinerSearchReturns ==
  /\ miner_pc = "search"
  /\ \E titles \in TitleLists :
       /\ calls' = Append(calls, [kind |-> "search", seed |-> seed_idx, title |-> <<>>,
                                  titles |-> titles, ok |-> TRUE,
                                  srlimit |-> limit_per_seed])
       /\ IF titles = <<>>
          THEN NextSeed
          ELSE /\ found_titles' = titles
               /\ title_idx' = 1
               /\ miner_pc' = "pages"
               /\ UNCHANGED seed_idx
  /\ UNCHANGED <<seeds_df, results>>
  /\ UNCHANGED <<callVars, genRunVars, engVars, semVars, cleanRunVars, mainVars, fileVars>>
  /\ UNCHANGED <<sentVars, rerunVars, jsonVars>>

\* a page step whose exception is not caught: search_and_extract raises and
\* nothing is returned
MinerPageFails_Uncaught ==
  /\ miner_pc = "pages"
  /\ calls' = Append(calls, [kind |-> "fetch", seed |-> seed_idx,
                             title |-> found_titles[title_idx],
                             titles |-> <<>>, ok |-> FALSE])
  /\ miner_pc' = "raised"
  /\ results' = <<>>
  /\ UNCHANGED <<seeds_df, seed_idx, found_titles, title_idx>>
  /\ UNCHANGED <<callVars, genRunVars, engVars, semVars, cleanRunVars, mainVars, fileVars>>
  /\ UNCHANGED <<sentVars, rerunVars, jsonVars>>

\* a page step that is tried again after its exception: the title under way
\* stays the same
MinerPageFails_Retry ==
  /\ miner_pc = "pages"
  /\ calls' = Append(calls, [kind |-> "fetch", seed |-> seed_idx,
                             title |-> found_titles[title_idx],
                             titles |-> <<>>, ok |-> FALSE])
  /\ UNCHANGED <<seeds_df, seed_idx, found_titles, title_idx, miner_pc, results>>
  /\ UNCHANGED <<callVars, genRunVars, engVars, semVars, cleanRunVars, mainVars, fileVars>>
  /\ UNCHANGED <<sentVars, rerunVars, jsonVars>>

\* lines 64-67, 81-83: wiki.page, page.exists() or page.text raises
MinerPageFails ==
  /\ miner_pc = "pages"
  /\ calls' = Append(calls, [kind |-> "fetch", seed |-> seed_idx,
                             title |-> found_titles[title_idx],
                             titles |-> <<>>, ok |-> FALSE])
  /\ NextTitle
  /\ UNCHANGED <<seeds_df, results>>
  /\ UNCHANGED <<callVars, genRunVars, engVars, semVars, cleanRunVars, mainVars, fileVars>>
  /\ UNCHANGED <<sentVars, rerunVars, jsonVars>>

\* lines 64-80: the page is fetched; its retained sentences go to results
MinerPageFetched ==
  /\ miner_pc = "pages"
  /\ calls' = Append(calls, [kind |-> "fetch", seed |-> seed_idx,
                             title |-> found_titles[title_idx],
                             titles |-> <<>>, ok |-> TRUE])
  /\ LET title == found_titles[title_idx]
         page == WikiPage(title)
     IN  results' = IF page.exists
                    THEN results \o PageRecords(seeds_df[seed_idx], title, page.text)
                    ELSE results
  /\ NextTitle
  /\ UNCHANGED seeds_df
  /\ UNCHANGED <<callVars, genRunVars, engVars, semVars, cleanRunVars, mainVars, fileVars>>
  /\ UNCHANGED <<sentVars, rerunVars, jsonVars>>

InitMiner ==
  /\ CallIdle /\ GenRunIdle /\ EngIdle /\ SemIdle /\ CleanRunIdle /\ MainIdle /\ FilesAbsent
  /\ SentIdle /\ RerunIdle /\ JsonIdle
  /\ seeds_df \in SeedTables
  /\ seed_idx = 1
  /\ found_titles = <<>> /\ title_idx = 0
  /\ results = <<>> /\ calls = <<>>
  /\ miner_pc = IF seeds_df = <<>> THEN "done" ELSE "search"
NextMiner == MinerSearchFails \/ MinerSearchReturns \/ MinerPageFails \/ MinerPageFetched
SpecMiner == InitMiner /\ [][NextMiner]_vars

(* a stage run a second time on the same upstream file *)

\* run_generation is started again after it returned
GenerateAgain ==
  /\ run_no = 1
  /\ gen_pc = "done"
  /\ first_run' = [stage |-> "generate", outcome |-> gen_pc, output |-> seeds_file,
                   counts |-> <<>>]
  /\ run_no' = 2
  /\ all_seeds' = <<>>
  /\ gen_pc' = "start"
  /\ UNCHANGED <<roots, callVars, engVars, semVars, cleanRunVars, mainVars, fileVars>>
  /\ UNCHANGED <<minerVars, sentVars, jsonVars>>

\* clean_file is started again after it returned or raised
CleanAgain ==
  /\ run_no = 1
  /\ clean_pc \in {"done", "raised"}
  /\ first_run' = [stage |-> "clean", outcome |-> clean_pc, output |-> clean_file,
                   counts |-> <<Len(kept), dropped_eng, dropped_sem>>]
  /\ run_no' = 2
  /\ kept' = <<>> /\ dropped_eng' = 0 /\ dropped_sem' = 0
  /\ line_no' = 1
  /\ clean_pc' = "read"
  /\ UNCHANGED <<callVars, genRunVars, engVars, semVars, mainVars, fileVars>>
  /\ UNCHANGED <<minerVars, sentVars, jsonVars>>

InitRerun ==
  /\ CallIdle /\ EngIdle /\ SemIdle /\ MainIdle
  /\ MinerIdle /\ SentIdle /\ JsonIdle
  /\ run_no = 1
  /\ first_run = [stage |-> None]
  /\ \/ /\ CleanRunIdle
        /\ roots \in RootLists
        /\ wiktionary_file \in WiktionaryFiles
        /\ all_seeds = <<>>
        /\ gen_pc = "start"
        /\ seeds_file = Absent /\ mined_file = Absent /\ clean_file = Absent
     \/ /\ GenRunIdle
        /\ wiktionary_file = Absent /\ seeds_file = Absent
        /\ mined_file \in MinedFiles
        /\ clean_file \in {Absent, OldCleanFile}
        /\ kept = <<>> /\ dropped_eng = 0 /\ dropped_sem = 0
        /\ line_no = 1
        /\ clean_pc = "read"
NextRerun ==
  \/ GenerateSynthetic \/ LoadWiktionary \/ WriteSeeds \/ GenerateAgain
  \/ CleanReadLine \/ CleanWrite \/ CleanAgain
SpecRerun == InitRerun /\ [][NextRerun]_vars

(* a record written as a line and read back *)

\* f.write(json.dumps(k, ensure_ascii=False) + "\n")
JsonDumpsCall ==
  /\ json_pc = "dump"
  /\ json_line' = JsonDumps(arg_obj) \o <<"\n">>
  /\ json_pc' = "written"
  /\ UNCHANGED <<arg_obj, json_back>>
  /\ UNCHANGED <<callVars, genRunVars, engVars, semVars, cleanRunVars, mainVars, fileVars>>
  /\ UNCHANGED <<minerVars, sentVars, rerunVars>>

\* obj = json.loads(line)
JsonLoadsCall ==
  /\ json_pc = "written"
  /\ json_back' = JsonLoads(json_line)
  /\ json_pc' = "read"
  /\ UNCHANGED <<arg_obj, json_line>>
  /\ UNCHANGED <<callVars, genRunVars, engVars, semVars, cleanRunVars, mainVars, fileVars>>
  /\ UNCHANGED <<minerVars, sentVars, rerunVars>>

InitJson ==
  /\ CallIdle /\ GenRunIdle /\ EngIdle /\ SemIdle /\ CleanRunIdle /\ MainIdle /\ FilesAbsent
  /\ MinerIdle /\ SentIdle /\ RerunIdle
  /\ arg_obj \in JsonEntries
  /\ json_line = <<>>
  /\ json_back = [ok |-> FALSE, obj |-> <<>>]
  /\ json_pc = "dump"
NextJson == JsonDumpsCall \/ JsonLoadsCall
SpecJson == InitJson /\ [][NextJson]_vars

----------------------------------------------------------------------------
(* Properties *)

\* C3: for every entity-classified root (member of N_ROOTS) and each of the
\* three generators, generate_for_root returns no seed whose pos is VERB.
C3_NoVerbForEntityRoots ==
  gen_root \in Range(N_ROOTS) => \A i \in DOMAIN H : H[i].pos # "VERB"

\* an entity root went through the Greek generator and came back as nouns
C3_Witness ==
  /\ gen_root \in Range(N_ROOTS) /\ gen_lang = "el"
  /\ Len(H) >= 2 /\ \A i \in DOMAIN H : H[i].pos = "NOUN"

\* C1: the seed table written by run_generation holds no two seeds with the
\* same (term, lang, type) triple.
C1_NoDuplicateKeys ==
  gen_pc = "done" =>
    \A i, j \in DOMAIN seeds_file.content :
      i # j => DedupKey(seeds_file.content[i]) # DedupKey(seeds_file.content[j])

\* a run whose concatenation held the same dictionary-sourced seed twice
C1_Witness ==
  /\ gen_pc = "done"
  /\ \E i, j \in DOMAIN all_seeds :
       i < j /\ all_seeds[i].lang = "ast" /\ all_seeds[j] = all_seeds[i]
             /\ all_seeds[i].type = W_wiktionary_ \o W_en
  /\ Len(seeds_file.content) < Len(all_seeds)

\* the positions of all_seeds whose key occurs at no earlier position
FirstPositions(s) ==
  { i \in DOMAIN s : \A j \in 1..(i - 1) : DedupKey(s[j]) # DedupKey(s[i]) }

\* C2: the seed table is the concatenation Asturian, Basque, Greek, dictionary
\* with every seed removed whose (term, lang, type) occurred earlier; the
\* survivors keep their relative order and each is the earliest seed of its
\* key, lemma and pos included.
C2_FirstOccurrenceInOrder ==
  gen_pc = "done" =>
    LET idx == FirstPositions(all_seeds)
        nth(k) == CHOOSE i \in idx : Cardinality({ j \in idx : j <= i }) = k
    IN  /\ all_seeds = GenerateAll("ast", roots) \o GenerateAll("eu", roots)
                       \o GenerateAll("el", roots)
                       \o LoadSeeds(wiktionary_file, TARGET_LANGS)
        /\ Len(seeds_file.content) = Cardinality(idx)
        /\ \A k \in DOMAIN seeds_file.content : seeds_file.content[k] = all_seeds[nth(k)]

\* two seeds of one key and different lemmas met, and the earlier one survived
C2_Witness ==
  /\ gen_pc = "done"
  /\ \E i, j \in DOMAIN all_seeds :
       /\ i < j
       /\ DedupKey(all_seeds[i]) = DedupKey(all_seeds[j])
       /\ all_seeds[i].lemma # all_seeds[j].lemma
       /\ \E k \in DOMAIN seeds_file.content : seeds_file.content[k] = all_seeds[i]
       /\ \A k \in DOMAIN seeds_file.content : seeds_file.content[k] # all_seeds[j]

\* the tokens of a sentence and how many of them are English stopwords
Tokens(s) == FindAllWords(Lower(s))
Stopwords(s) == EnglishCount(Tokens(s))

\* the sentence contains one of the three marker substrings, in any case
HasMarkerSubstring(s) ==
  \/ Contains(Lower(s), W_references)
  \/ Contains(Lower(s), W_retrieved_from)
  \/ Contains(Lower(s), W_tongue_body)

\* the tokens of the sentence include "how", "an" and "our"
HasHowAnOur(s) ==
  /\ W_how \in Range(Tokens(s))
  /\ W_an \in Range(Tokens(s))
  /\ W_our \in Range(Tokens(s))

\* C4 as stated: every sentence whose stopword density is exactly 0.25 is not
\* flagged by is_english, and every sentence whose density is strictly
\* greater than 0.25 is flagged.
C4_Boundary_AsStated ==
  (eng_pc = "return" /\ Tokens(arg_sentence) # <<>>) =>
    /\ 4 * Stopwords(arg_sentence) = Len(Tokens(arg_sentence)) => is_english_ret = FALSE
    /\ 4 * Stopwords(arg_sentence) > Len(Tokens(arg_sentence)) => is_english_ret = TRUE

\* C4: a sentence whose stopword density is exactly 0.25, that contains none
\* of the marker substrings and whose tokens do not include all of "how",
\* "an", "our", is not flagged by is_english; every sentence whose density is
\* strictly greater than 0.25 is flagged.
C4_Boundary ==
  (eng_pc = "return" /\ Tokens(arg_sentence) # <<>>) =>
    /\ ( /\ 4 * Stopwords(arg_sentence) = Len(Tokens(arg_sentence))
         /\ ~HasMarkerSubstring(arg_sentence)
         /\ ~HasHowAnOur(arg_sentence) ) => is_english_ret = FALSE
    /\ 4 * Stopwords(arg_sentence) > Len(Tokens(arg_sentence)) => is_english_ret = TRUE

\* 8 tokens, 2 of them stopwords, no marker: is_english returned False
C4_Witness ==
  /\ eng_pc = "return"
  /\ Len(Tokens(arg_sentence)) = 8 /\ Stopwords(arg_sentence) = 2
  /\ ~HasMarkerSubstring(arg_sentence) /\ ~HasHowAnOur(arg_sentence)
  /\ is_english_ret = FALSE

\* the three conditions (a), (b), (c)
RuleA(s) == 4 * Stopwords(s) > Len(Tokens(s))
RuleB(s) == Len(Tokens(s)) < 6 /\ Stopwords(s) >= 2
RuleC(s) == HasMarkerSubstring(s)

\* C5 as stated: is_english returns true if and only if (a) the stopword
\* fraction exceeds 0.25, or (b) the sentence has fewer than 6 tokens and at
\* least 2 stopword tokens, or (c) the lower-cased sentence contains one of
\* "references", "retrieved from", "tongue body".
C5_Iff_AsStated ==
  eng_pc = "return" =>
    (is_english_ret <=> (RuleA(arg_sentence) \/ RuleB(arg_sentence) \/ RuleC(arg_sentence)))

\* C5: is_english returns true if and only if the sentence has at least one
\* token and (a) or (b) or (c) holds or its tokens include all of "how",
\* "an" and "our".
C5_Iff ==
  eng_pc = "return" =>
    (is_english_ret <=>
       /\ Tokens(arg_sentence) # <<>>
       /\ \/ RuleA(arg_sentence) \/ RuleB(arg_sentence) \/ RuleC(arg_sentence)
          \/ HasHowAnOur(arg_sentence))

\* a sentence flagged by the how/an/our rule alone: none of (a), (b), (c)
C5_Witness ==
  /\ eng_pc = "return"
  /\ HasHowAnOur(arg_sentence)
  /\ ~RuleA(arg_sentence) /\ ~RuleB(arg_sentence) /\ ~RuleC(arg_sentence)
  /\ is_english_ret = TRUE

\* the records of the input file that parse, in file order
ParsedRecords(file) ==
  LET parses(line) == ~IsBlank(line) /\ ~RaisesJSONDecodeError(line)
      lines == SelectSeq(file.content, parses)
  IN  [i \in DOMAIN lines |-> Loads(lines[i])]

\* C6: after clean_file the clean file holds exactly the records of the input
\* file that parse and that neither is_english nor is_false_positive flags,
\* in their input order and with every field unchanged.
C6_Composition ==
  clean_pc = "done" =>
    LET neither(obj) == ~IsEnglish(obj.sentence) /\ ~IsFalsePositive(obj)
        surviving == SelectSeq(ParsedRecords(mined_file), neither)
    IN  /\ clean_file.exists
        /\ Len(clean_file.content) = Len(surviving)
        /\ \A k \in DOMAIN surviving : Loads(clean_file.content[k]) = surviving[k]

\* a finished run that dropped a record for each filter and kept another
C6_Witness ==
  /\ clean_pc = "done"
  /\ dropped_eng >= 1 /\ dropped_sem >= 1 /\ Len(kept) >= 1
  /\ Len(clean_file.content) = Len(kept)

\* one of the homonym rules of lines 64-73 returns True for the entry
HomonymRuleApplies(entry) ==
  \/ entry.lang = "eu" /\ Lower(entry.lemma) = W_ban
  \/ entry.lang = "el" /\ Lower(entry.term) = W_gr_ap
  \/ /\ entry.lang = "ast"
     /\ Lower(entry.term) \in HOMONYM_TERMS
     /\ ~(\E k \in DIGITAL_KEYWORDS : Contains(Lower(entry.sentence), k))

\* a trigger of the lemma occurs in the sentence, letter case set aside
TriggerOccurs(entry) ==
  \E trigger \in FalseContexts(Lower(entry.lemma)) :
    Contains(Lower(entry.sentence), trigger)

\* C7: for an entry whose lemma is in the trigger table, is_false_positive
\* returns true whenever one of the lemma's triggers occurs in the sentence
\* (letter case set aside, as in "Bugs Bunny" for the trigger "bunny"), and
\* returns false when none occurs and no homonym rule applies to the entry.
C7_TriggerMatching ==
  (sem_pc = "return" /\ HasFalseContexts(Lower(arg_entry.lemma))) =>
    /\ TriggerOccurs(arg_entry) => is_false_positive_ret = TRUE
    /\ (~TriggerOccurs(arg_entry) /\ ~HomonymRuleApplies(arg_entry))
         => is_false_positive_ret = FALSE

\* lemma "bug", a sentence with "Bugs Bunny", no homonym rule: flagged
C7_Witness ==
  /\ sem_pc = "return"
  /\ arg_entry.lemma = <<"b", "u", "g">>
  /\ Contains(arg_entry.sentence, <<"B", "u", "g", "s", " ", "B", "u", "n", "n", "y">>)
  /\ ~HomonymRuleApplies(arg_entry)
  /\ is_false_positive_ret = TRUE

\* the homonym terms as the specification lists them
SPEC_HOMONYM_TERMS ==
  {<<"p", "o", "s", "t", "e", "s">>,
   <<"p", "o", "s", "t", "e">>,
   <<"p", "o", "s", "t", "i", "a", "r">>,
   <<"p", "o", "s", "t", "i", "a_acute", "u">>,
   <<"b", "a", "n", "a">>,
   <<"b", "a", "n", "a", "t", "u">>,
   <<"b", "a", "n", "a", "t", "z", "e", "n">>,
   <<"b", "a", "n", "a", "k">>,
   <<"gr_alpha", "gr_pi">>}

\* C8: an entry whose term is one of the homonym terms (postes, poste,
\* postiar, postiau, bana, banatu, banatzen, banak, ap; Basque lemma ban) is
\* flagged when its sentence contains no digital-context keyword, and is not
\* flagged when its sentence contains one.
C8_HomonymRescue ==
  ( /\ sem_pc = "return"
    /\ \/ arg_entry.term \in SPEC_HOMONYM_TERMS
       \/ (arg_entry.lang = "eu" /\ arg_entry.lemma = W_ban) ) =>
    (is_false_positive_ret <=>
       ~(\E k \in DIGITAL_KEYWORDS : Contains(Lower(arg_entry.sentence), k)))

\* C9: with the seeds file absent run_mining makes no search, leaves the
\* mined file as it was, prints its diagnostic and returns to the runner;
\* with the mined file absent run_cleaning leaves the clean file as it was,
\* prints its diagnostic and returns to the runner.
C9_NoOpOnMissingInput ==
  [][ /\ ( /\ main_pc = "mine" /\ entered' = Append(entered, "mine")
           /\ ~seeds_file.exists )
         => /\ searches' = searches
            /\ mined_file' = mined_file
            /\ stdout' = Append(stdout, "seeds_not_found")
            /\ main_pc' = "clean"
      /\ ( /\ main_pc = "clean" /\ entered' = Append(entered, "clean")
           /\ ~mined_file.exists )
         => /\ clean_file' = clean_file
            /\ stdout' = Append(stdout, "mined_not_found")
            /\ main_pc' = "stats" ]_vars

\* both stages met a missing input in one run: no search was made, the mined
\* file is still absent and the clean file of an earlier run is untouched
C9_Witness ==
  /\ \E i, j \in DOMAIN stdout :
       i < j /\ stdout[i] = "seeds_not_found" /\ stdout[j] = "mined_not_found"
  /\ searches = 0
  /\ mined_file = Absent
  /\ clean_file = OldCleanFile
  /\ main_pc = "stats"

\* the stages of an "all" run, in their order in __main__
STAGE_ORDER == <<"scrape", "generate", "mine", "clean", "stats", "analysis">>

\* C10: in an "all" run in which a stage found its input file absent, the
\* runner goes on, and when it ends every stage has been entered, in the
\* order scrape, generate, mine, clean, analyze.
C10_LaterStagesEntered ==
  ( /\ step = "all"
    /\ main_pc \in {"exit", "aborted"}
    /\ \E i \in DOMAIN stdout : stdout[i] \in {"seeds_not_found", "mined_not_found"} )
  => entered = STAGE_ORDER

\* an "all" run ended in which run_mining found the seeds file absent and the
\* later stages were all entered
C10_Witness ==
  /\ step = "all" /\ main_pc = "exit"
  /\ \E i \in DOMAIN stdout : stdout[i] = "seeds_not_found"
  /\ entered = STAGE_ORDER

(* ------------------------------------------------------------------ *)
(* The miner                                                          *)
(* ------------------------------------------------------------------ *)

\* the entries of the call log that belong to row i of seeds_df
SearchesOf(i) == SelectSeq(calls, LAMBDA c : c.kind = "search" /\ c.seed = i)
FetchesOf(i) == SelectSeq(calls, LAMBDA c : c.kind = "fetch" /\ c.seed = i)

\* what one logged call adds to results: the records of a page that was
\* fetched and exists, nothing for a search and nothing for a failure
\* the records each sampled row draws from each page of the wiki
RecordsOfPage ==
  [row \in SampleSeeds |->
    [title \in {T_Web, T_Bugs, T_Nada, T_Click} |->
      IF WikiPage(title).exists
      THEN PageRecords(row, title, WikiPage(title).text)
      ELSE <<>>]]

Contribution(c) ==
  IF c.kind = "fetch" /\ c.ok THEN RecordsOfPage[seeds_df[c.seed]][c.title] ELSE <<>>

RECURSIVE Collected(_)
Collected(n) == IF n = 0 THEN <<>> ELSE Collected(n - 1) \o Contribution(calls[n])

\* C11: a failing search or a failing page never aborts search_and_extract:
\* the failing seed or page adds no sentence, the sentences collected before
\* it stay in results, and when the run returns every seed has been searched
\* once and every title of every answered search has been tried, in order.
C11_PartialFailureTolerance ==
  /\ miner_pc \in {"search", "pages", "done"}
  /\ results = Collected(Len(calls))
  /\ miner_pc = "done" =>
       \A i \in DOMAIN seeds_df :
         /\ Len(SearchesOf(i)) = 1
         /\ LET titles == SearchesOf(i)[1].titles
                fetches == FetchesOf(i)
            IN  /\ Len(fetches) = Len(titles)
                /\ \A k \in DOMAIN fetches : fetches[k].title = titles[k]

\* C11 witness: the run has returned; a search failed for one seed and a page
\* failed for another, a page after the failing page was fetched and gave
\* sentences, and sentences collected before the failure are in the result.
C11_Witness ==
  /\ miner_pc = "done"
  /\ \E k \in DOMAIN calls : calls[k].kind = "search" /\ ~calls[k].ok /\ k < Len(calls)
  /\ \E j, k, l \in DOMAIN calls :
       /\ j < k /\ k < l
       /\ calls[k].kind = "fetch" /\ ~calls[k].ok
       /\ Contribution(calls[j]) # <<>>
       /\ Contribution(calls[l]) # <<>>
       /\ calls[j].seed = calls[k].seed /\ calls[l].seed = calls[k].seed

\* the segments the page text is cut into
Segments == ReSplit(ReplaceNewlines(arg_text))

\* the term stands in s as a whole word, whatever the case of its letters:
\* no letter, digit or underscore right before it or right after it
HasWholeWord(s, term) ==
  \E p \in 1..(Len(s) - Len(term) + 1) :
    /\ \A k \in 1..Len(term) : LowerChar(s[p + k - 1]) = LowerChar(term[k])
    /\ (p = 1 \/ s[p - 1] \notin WordChars)
    /\ (p + Len(term) > Len(s) \/ s[p + Len(term)] \notin WordChars)

Retainable(seg) ==
  /\ HasWholeWord(seg, arg_term)
  /\ Len(Strip(seg)) > 10
  /\ Len(Strip(seg)) < 500

\* C20: _get_sentences returns a segment of the page text (stripped) if and
\* only if the segment holds the term as a whole word, case-insensitively, and
\* its stripped length is above 10 and below 500; the returned sentences are
\* those segments in page order, so each has 10 < len < 500 and holds the term.
C20_SentenceRetention ==
  sent_pc = "return" =>
    /\ LET segs == Segments
           held == SelectSeq(segs, Retainable)
       IN  /\ \A i \in DOMAIN segs :
                Retainable(segs[i]) <=> Strip(segs[i]) \in Range(get_sentences_ret)
           /\ get_sentences_ret = [k \in DOMAIN held |-> Strip(held[k])]
    /\ \A k \in DOMAIN get_sentences_ret :
         /\ Len(get_sentences_ret[k]) > 10
         /\ Len(get_sentences_ret[k]) < 500
         /\ HasWholeWord(get_sentences_ret[k], arg_term)

\* C20 witness: a call that returned a sentence of 11 characters and left out
\* a segment of 10 characters that holds the term
C20_Witness ==
  /\ sent_pc = "return"
  /\ \E k \in DOMAIN get_sentences_ret : Len(get_sentences_ret[k]) = 11
  /\ LET segs == Segments
     IN  \E i \in DOMAIN segs :
           /\ Len(Strip(segs[i])) = 10
           /\ HasWholeWord(segs[i], arg_term)
           /\ Strip(segs[i]) \notin Range(get_sentences_ret)

Titles == {T_Web, T_Bugs, T_Nada, T_Click}

\* the retained sentences of each page of the wiki, for each sampled row
RetainedOfPage ==
  [row \in SampleSeeds |->
    [title \in Titles |->
      IF WikiPage(title).exists THEN GetSentences(WikiPage(title).text, row.term) ELSE <<>>]]

\* how often s stands in the sequence
Occurrences(seq, s) == Cardinality({ k \in DOMAIN seq : seq[k] = s })

\* how often the page with this title was fetched successfully for this row
FetchedFor(row, title) ==
  Cardinality({ k \in DOMAIN calls :
                  /\ calls[k].kind = "fetch" /\ calls[k].ok
                  /\ seeds_df[calls[k].seed] = row
                  /\ calls[k].title = title
                  /\ WikiPage(title).exists })

\* every record of results is a retained sentence of a page fetched for a
\* row of seeds_df, with the metadata of that row and the title of that page
RecordsAreOfFetchedPages ==
  \A k \in DOMAIN results :
    \E row \in Range(seeds_df), title \in Titles :
      /\ FetchedFor(row, title) > 0
      /\ \E s \in Range(RetainedOfPage[row][title]) :
           results[k] = MinedSentence(row, s, title)

\* C19 as stated: one record for each retained sentence of each fetched page
C19_Emission_AsStated ==
  /\ RecordsAreOfFetchedPages
  /\ \A row \in Range(seeds_df), title \in Titles :
       \A s \in Range(RetainedOfPage[row][title]) :
         Occurrences(results, MinedSentence(row, s, title)) =
           FetchedFor(row, title) * Occurrences(RetainedOfPage[row][title], s)

\* C19: for every page fetched successfully for a seed, search_and_extract
\* emits one record for each occurrence of a retained sentence of the page
\* that _is_semantic_false_positive does not flag, and none for a flagged
\* one; each record carries term, lemma, lang, type and pos of the seed and
\* the page title as source_page.
C19_Emission ==
  /\ RecordsAreOfFetchedPages
  /\ \A row \in Range(seeds_df), title \in Titles :
       \A s \in Range(RetainedOfPage[row][title]) :
         Occurrences(results, MinedSentence(row, s, title)) =
           IF IsSemanticFalsePositive(row.lemma, row.term, s) THEN 0
           ELSE FetchedFor(row, title) * Occurrences(RetainedOfPage[row][title], s)

\* C19 witness: the run has returned after fetching a page that holds a
\* flagged retained sentence and a retained sentence that occurs twice
C19_Witness ==
  /\ miner_pc = "done"
  /\ \E row \in Range(seeds_df), title \in Titles :
       /\ FetchedFor(row, title) = 1
       /\ \E s, t \in Range(RetainedOfPage[row][title]) :
            /\ IsSemanticFalsePositive(row.lemma, row.term, s)
            /\ Occurrences(RetainedOfPage[row][title], t) = 2
            /\ Occurrences(results, MinedSentence(row, t, title)) = 2

(* ------------------------------------------------------------------ *)
(* The clean stage on any input                                       *)
(* ------------------------------------------------------------------ *)

\* C12: a line that does not parse is skipped and counted nowhere, and for
\* every input file, once clean_file is through with it, kept +
\* dropped_english + dropped_semantic is the number of non-blank lines that
\* parse.
C12_Accounting ==
  clean_pc \in {"done", "raised"} =>
    Len(kept) + dropped_eng + dropped_sem = Len(ParsedRecords(mined_file))

\* C12 witness: a run that returned after skipping an unparsable line,
\* keeping a record and counting a record that both filters flag as
\* dropped_english only
C12_Witness ==
  /\ clean_pc = "done"
  /\ \E i \in DOMAIN mined_file.content : RaisesJSONDecodeError(mined_file.content[i])
  /\ \E i \in DOMAIN mined_file.content : mined_file.content[i] = Dumps(E_both)
  /\ Len(kept) = 1 /\ dropped_eng = 1 /\ dropped_sem = 0
  /\ Len(kept) + dropped_eng + dropped_sem = Len(ParsedRecords(mined_file))

\* C13: whatever the mined file holds, clean_file ends without an uncaught
\* error.
C13_NeverHalted == clean_pc # "raised"

\* C13 witness: clean_file has raised on a line that is valid JSON, and the
\* clean file is as it was before the run
C13_Witness ==
  /\ clean_pc = "raised"
  /\ RaisesOnSentence(Loads(mined_file.content[line_no]))
  /\ clean_file \in {Absent, OldCleanFile}

\* the sentence of the scenario
S_users_can_click == E_english.sentence

\* is_english on the sentence: 3 stopwords in 7 tokens, no marker rule, no
\* short-sentence rule
FlaggedByDensity ==
  /\ Len(Tokens(S_users_can_click)) = 7 /\ Stopwords(S_users_can_click) = 3
  /\ RuleA(S_users_can_click)
  /\ ~RuleB(S_users_can_click) /\ ~RuleC(S_users_can_click) /\ ~HasHowAnOur(S_users_can_click)
  /\ IsEnglish(S_users_can_click)

\* C15: "Users can click the button to proceed." with term click and a
\* non-English target language is flagged by is_english through its stopword
\* density and by no marker rule, and no record with that sentence is in the
\* clean corpus clean_file produces.
C15_Scenario ==
  /\ E_english.term = W_click /\ E_english.lang \in TARGET_LANGS
  /\ FlaggedByDensity
  /\ \A k \in DOMAIN kept : kept[k].sentence # S_users_can_click
  /\ clean_pc = "done" =>
       \A k \in DOMAIN clean_file.content :
         Loads(clean_file.content[k]).sentence # S_users_can_click

\* C15 witness: clean_file has returned on a mined file that holds the record,
\* after counting it as dropped_english and keeping another record
C15_Witness ==
  /\ clean_pc = "done"
  /\ \E i \in DOMAIN mined_file.content : mined_file.content[i] = Dumps(E_english)
  /\ dropped_eng >= 1
  /\ Len(clean_file.content) >= 1

(* ------------------------------------------------------------------ *)
(* Provenance of the seeds                                            *)
(* ------------------------------------------------------------------ *)

W_wiktionary == <<"w", "i", "k", "t", "i", "o", "n", "a", "r", "y">>

\* no seed of the three generators, for any root, has "wiktionary" in its type
NoSyntheticWiktionaryType ==
  \A i \in DOMAIN GENERATORS : \A root \in CallRoots :
    \A seed \in Range(GenerateForRoot(GENERATORS[i], root)) :
      ~Contains(seed.type, W_wiktionary)

\* the rows of the CSV file whose target language was asked for
WantedRows ==
  IF wiktionary_file.exists
  THEN SelectSeq(wiktionary_file.content, LAMBDA row : row.target_lang \in TARGET_LANGS)
  ELSE <<>>

\* C17: every seed of load_seeds has type "wiktionary_" + origin language, pos
\* "-", lemma = term and a requested language; no generated seed has
\* "wiktionary" in its type; so in the merged table a type starts with
\* "wiktionary_" exactly for the dictionary-sourced seeds, and every
\* dictionary-sourced seed is still in the table after the dedup.
C17_Provenance ==
  LET wik_seeds == LoadSeeds(wiktionary_file, TARGET_LANGS)
      rows == WantedRows
  IN  /\ Len(wik_seeds) = Len(rows)
      /\ \A i \in DOMAIN wik_seeds :
           /\ wik_seeds[i].type = W_wiktionary_ \o rows[i].origin_lang
           /\ wik_seeds[i].pos = "-"
           /\ wik_seeds[i].lemma = wik_seeds[i].term
           /\ wik_seeds[i].term = rows[i].term
           /\ wik_seeds[i].lang = rows[i].target_lang
           /\ wik_seeds[i].lang \in TARGET_LANGS
      /\ NoSyntheticWiktionaryType
      /\ gen_pc \in {"dedup", "done"} =>
           LET synthetic == Len(all_seeds) - Len(wik_seeds)
           IN  /\ SubSeq(all_seeds, synthetic + 1, Len(all_seeds)) = wik_seeds
               /\ \A i \in DOMAIN all_seeds :
                    StartsWith(all_seeds[i].type, W_wiktionary_) <=> i > synthetic
      /\ gen_pc = "done" =>
           LET synthetic == SubSeq(all_seeds, 1, Len(all_seeds) - Len(wik_seeds))
           IN  /\ \A i \in DOMAIN wik_seeds : wik_seeds[i] \in Range(seeds_file.content)
               /\ \A k \in DOMAIN seeds_file.content :
                    /\ StartsWith(seeds_file.content[k].type, W_wiktionary_)
                         <=> seeds_file.content[k] \in Range(wik_seeds)
                    /\ StartsWith(seeds_file.content[k].type, W_wiktionary_)
                         <=> seeds_file.content[k] \notin Range(synthetic)

\* C17 witness: the table is written; a dictionary seed and a generated seed
\* share term and language, and both are in the table
C17_Witness ==
  /\ gen_pc = "done"
  /\ \E i, j \in DOMAIN seeds_file.content :
       /\ seeds_file.content[i].term = seeds_file.content[j].term
       /\ seeds_file.content[i].lang = seeds_file.content[j].lang
       /\ StartsWith(seeds_file.content[j].type, W_wiktionary_)
       /\ ~StartsWith(seeds_file.content[i].type, W_wiktionary_)
       /\ seeds_file.content[i].lemma = seeds_file.content[j].lemma

(* ------------------------------------------------------------------ *)
(* Running a stage twice                                              *)
(* ------------------------------------------------------------------ *)

\* C14: a second run of the generate stage, or of the clean stage, on the
\* same upstream file leaves the output file as the first run left it, and
\* clean_file ends the same way and returns the same three counts.
C14_Idempotence ==
  /\ (run_no = 2 /\ gen_pc = "done") =>
       /\ first_run.stage = "generate"
       /\ seeds_file = first_run.output
  /\ (run_no = 2 /\ clean_pc \in {"done", "raised"}) =>
       /\ first_run.stage = "clean"
       /\ clean_pc = first_run.outcome
       /\ clean_file = first_run.output
       /\ clean_pc = "done" => <<Len(kept), dropped_eng, dropped_sem>> = first_run.counts

\* C14 witness: the second run of a stage has ended. Either the seed table
\* was written twice from a dictionary file and holds seeds, or the clean
\* file was written twice, over an older one, with a record kept and a
\* record dropped.
C14_Witness ==
  /\ run_no = 2
  /\ \/ /\ gen_pc = "done"
        /\ wiktionary_file.exists
        /\ Len(seeds_file.content) > 0
     \/ /\ clean_pc = "done"
        /\ first_run.output # OldCleanFile
        /\ Len(clean_file.content) > 0
        /\ dropped_eng + dropped_sem > 0

(* ------------------------------------------------------------------ *)
(* The persisted line format                                          *)
(* ------------------------------------------------------------------ *)

\* C18: a record written as one line with json.dumps(entry,
\* ensure_ascii=False) and read back with json.loads is the record that was
\* written, same fields and same values, and writing the record read gives
\* the same line again.
C18_RoundTrip ==
  json_pc = "read" =>
    /\ json_back.ok
    /\ json_back.obj = arg_obj
    /\ JsonDumps(json_back.obj) \o <<"\n">> = json_line
    /\ \A i \in 1..(Len(json_line) - 1) : json_line[i] # "\n"

\* C18 witness: a record whose sentence holds a quote or a backslash, and
\* whose title ends in a backslash, has been written and read back
C18_Witness ==
  /\ json_pc = "read"
  /\ json_back.ok
  /\ \E i \in DOMAIN arg_obj :
       /\ arg_obj[i][1] = <<"s", "e", "n", "t", "e", "n", "c", "e">>
       /\ Len(arg_obj[i][2]) = 2
       /\ arg_obj[i][2][1] \in {QUOTE, BACKSLASH}
       /\ json_back.obj[i][2] = arg_obj[i][2]
  /\ arg_obj[7][2] = T_backslash
(* ------------------------------------------------------------------ *)
(* The miner: retries and the page budget                             *)
(* ------------------------------------------------------------------ *)

\* the calls of the log that were issued for row i and title t
FetchesOfTitle(i, t) == SelectSeq(FetchesOf(i), LAMBDA c : c.title = t)

\* a record of results that row i draws from the page t
RecordsFrom(i, t) ==
  SelectSeq(results, LAMBDA r : r \in Range(RecordsOfPage[seeds_df[i]][t]))

\* C21: the miner never retries.  For every row of the seed table the search
\* is issued at most once while the run is under way and exactly once when
\* it has returned; a page is fetched at most once for each row and returned
\* title, so no call follows a failed call for the same row and title; and a
\* page whose only fetch failed, or a row whose search failed, adds no
\* sentence to results.
C21_NoRetry ==
  \A i \in DOMAIN seeds_df :
    /\ Len(SearchesOf(i)) <= 1
    /\ (miner_pc = "done" \/ seed_idx > i) => Len(SearchesOf(i)) = 1
    /\ \A t \in Titles : Len(FetchesOfTitle(i, t)) <= 1
    /\ \A k, l \in DOMAIN calls :
         (k < l /\ ~calls[k].ok /\ calls[k].seed = i /\ calls[l].seed = i)
           => (calls[l].kind # calls[k].kind \/ calls[l].title # calls[k].title)
    /\ (\E k \in DOMAIN calls : calls[k].kind = "search" /\ calls[k].seed = i /\ ~calls[k].ok)
         => FetchesOf(i) = <<>>
    /\ \A k \in DOMAIN calls :
         (calls[k].kind = "fetch" /\ calls[k].seed = i /\ ~calls[k].ok
            /\ \A j \in DOMAIN seeds_df : (j # i => seeds_df[j] # seeds_df[i]))
           => RecordsFrom(i, calls[k].title) = <<>>

\* C21 witness: the run has returned; the search of one row failed, and for
\* the other row a page that holds sentences of the row failed and the page
\* after it was fetched
C21_Witness ==
  /\ miner_pc = "done"
  /\ \E i, j \in DOMAIN seeds_df :
       /\ i # j
       /\ ~SearchesOf(i)[1].ok
       /\ \E k \in DOMAIN calls :
            /\ calls[k].kind = "fetch" /\ calls[k].seed = j /\ ~calls[k].ok
            /\ RecordsOfPage[seeds_df[j]][calls[k].title] # <<>>
            /\ k < Len(calls) /\ calls[k + 1].kind = "fetch" /\ calls[k + 1].ok

\* the page steps of row i that read the text of a page: the step did not
\* raise and the page exists (lines 64-67)
ContentFetches(i) ==
  SelectSeq(FetchesOf(i), LAMBDA c : c.ok /\ WikiPage(c.title).exists)

\* the titles the search of row i came back with, none before the search
TitlesReturned(i) ==
  IF SearchesOf(i) = <<>> THEN <<>> ELSE SearchesOf(i)[1].titles

\* C22 as stated: the text of at most limit_per_seed pages is fetched for a
\* seed, whatever the search returns
C22_PageBudget_AsStated ==
  \A i \in DOMAIN seeds_df : Len(ContentFetches(i)) <= limit_per_seed

\* C22: for every seed the search is asked for at most limit_per_seed titles
\* (srlimit = limit_per_seed), and the text of at most as many pages is
\* fetched as the search returned titles: at most limit_per_seed pages
\* whenever the search returns no more titles than it was asked for.
C22_PageBudget ==
  \A i \in DOMAIN seeds_df :
    /\ \A k \in DOMAIN SearchesOf(i) : SearchesOf(i)[k].srlimit = limit_per_seed
    /\ Len(ContentFetches(i)) <= Len(TitlesReturned(i))
    /\ \A k \in DOMAIN SearchesOf(i) :
         Len(SearchesOf(i)[k].titles) <= SearchesOf(i)[k].srlimit
           => Len(ContentFetches(i)) <= limit_per_seed

\* C22 witness: the run has returned; the search of one row came back with
\* as many titles as asked and both pages were read, and the search of
\* another row came back with more and all of them were read
C22_Witness ==
  /\ miner_pc = "done"
  /\ \E i, j \in DOMAIN seeds_df :
       /\ Len(TitlesReturned(i)) = limit_per_seed
       /\ Len(FetchesOf(i)) = limit_per_seed
       /\ \A k \in DOMAIN FetchesOf(i) : FetchesOf(i)[k].ok
       /\ Len(TitlesReturned(j)) > limit_per_seed
       /\ Len(ContentFetches(j)) = Len(TitlesReturned(j))

(* ------------------------------------------------------------------ *)
(* The output files of the mine and clean stages                      *)
(* ------------------------------------------------------------------ *)

\* C23: the mined file is written in one step only, the one in which
\* run_mining has mined every seed and returns; the clean file is written in
\* one step only, the one that follows the reading and classifying of the
\* last line; a stage that finds its input and ends without an error makes
\* that step, and each stage is entered at most once in a run, so each file
\* is opened for writing once; and a step in which the mining or the
\* classifying raises leaves both files as they were.
C23_WriteOnce ==
  /\ [](Occurrences(entered, "mine") <= 1 /\ Occurrences(entered, "clean") <= 1)
  /\ [][ /\ (mined_file' # mined_file /\ mined_file'.exists)
            => /\ main_pc = "mine" /\ main_pc' = "clean"
               /\ entered' = Append(entered, "mine")
               /\ searches' = searches + Len(seeds_file.content)
         /\ (clean_file' # clean_file /\ clean_file'.exists)
            => /\ main_pc = "in_clean" /\ clean_pc = "read" /\ clean_pc' = "done"
               /\ line_no > Len(mined_file.content)
         /\ (main_pc = "mine" /\ main_pc' = "clean" /\ seeds_file.exists
               /\ entered' = Append(entered, "mine"))
            => \E found \in MiningOutcomes :
                 mined_file' = File([i \in DOMAIN found |-> Dumps(found[i])])
         /\ (clean_pc = "read" /\ clean_pc' = "done")
            => clean_file' = File([k \in DOMAIN kept |-> Dumps(kept[k])])
         /\ (main_pc \in {"mine", "in_clean"} /\ main_pc' = "aborted")
            => (mined_file' = mined_file /\ clean_file' = clean_file)
         /\ (clean_pc # "raised" /\ clean_pc' = "raised")
            => (mined_file' = mined_file /\ clean_file' = clean_file) ]_vars

\* C23 witness: the mining raised after a search was made, and the mined
\* file and the clean file of an earlier run are still there
C23_Witness ==
  /\ main_pc = "aborted"
  /\ entered # <<>> /\ entered[Len(entered)] = "mine"
  /\ searches > 0
  /\ mined_file \in OldMinedFiles
  /\ clean_file = OldCleanFile

(* ------------------------------------------------------------------ *)
(* Letter case in the trigger rule                                    *)
(* ------------------------------------------------------------------ *)

\* a trigger of the entry's lemma stands in the sentence as it is written
TriggerOccursAsWritten(entry) ==
  \E trigger \in FalseContexts(Lower(entry.lemma)) : Contains(entry.sentence, trigger)

\* a trigger of the entry's lemma stands in the sentence once its letters
\* are put in lower case
TriggerOccursLowered(entry) ==
  \E trigger \in FalseContexts(Lower(entry.lemma)) :
    Contains(Lower(entry.sentence), trigger)

\* C24 as stated: the trigger is matched case-sensitively, so an entry whose
\* sentence holds no trigger in the letter case of the table, and to which
\* no homonym rule applies, is not flagged
C24_CaseSensitive_AsStated ==
  ( /\ sem_pc = "return"
    /\ HasFalseContexts(Lower(arg_entry.lemma))
    /\ ~TriggerOccursAsWritten(arg_entry)
    /\ ~HomonymRuleApplies(arg_entry) )
  => is_false_positive_ret = FALSE

\* C24: the trigger check of is_false_positive is a substring match of the
\* trigger against the lower-cased sentence: a sentence that contains a
\* trigger only in a different letter case than the one of the trigger table
\* ("Bunny" for the trigger "bunny") is flagged by the trigger rule.
C24_CaseInsensitive ==
  ( /\ sem_pc = "return"
    /\ HasFalseContexts(Lower(arg_entry.lemma))
    /\ ~HomonymRuleApplies(arg_entry) )
  => /\ is_false_positive_ret = TriggerOccursLowered(arg_entry)
     /\ (~TriggerOccursAsWritten(arg_entry) /\ TriggerOccursLowered(arg_entry))
          => is_false_positive_ret = TRUE

\* C24 witness: lemma "bug", a sentence with "Bunny" and without "bunny",
\* no homonym rule: flagged
C24_Witness ==
  /\ sem_pc = "return"
  /\ Lower(arg_entry.lemma) = <<"b", "u", "g">>
  /\ Contains(arg_entry.sentence, <<"B", "u", "n", "n", "y">>)
  /\ ~TriggerOccursAsWritten(arg_entry)
  /\ ~HomonymRuleApplies(arg_entry)
  /\ is_false_positive_ret = TRUE

(* ------------------------------------------------------------------ *)
(* What the generators return                                         *)
(* ------------------------------------------------------------------ *)

\* the seeds of H that are nouns
NounSeeds == SelectSeq(H, LAMBDA s : s.pos = "NOUN")

\* the types of a bare noun, and of a definite or plural noun
BARE_NOUN_TYPES == {TypeTag("noun_raw"), TypeTag("cs_latin_raw")}
INFLECTED_NOUN_TYPES ==
  {TypeTag("noun_plural_native"), TypeTag("noun_plural_english"),
   TypeTag("noun_integrated_sg"), TypeTag("noun_integrated_pl")}

\* the uninflected noun the generator of lang builds for root: the root
\* itself, in Asturian the stem (tuit for tweet, escan for scan)
BareForm(lang, root) == IF lang = "ast" THEN AstStem(root) ELSE root

HasBareNoun ==
  \E i \in DOMAIN NounSeeds :
    /\ NounSeeds[i].type \in BARE_NOUN_TYPES
    /\ NounSeeds[i].term = BareForm(gen_lang, gen_root)

HasInflectedNoun ==
  \E i \in DOMAIN NounSeeds :
    /\ NounSeeds[i].type \in INFLECTED_NOUN_TYPES
    /\ NounSeeds[i].term # BareForm(gen_lang, gen_root)

\* C25 as stated: each of the three generators returns, for every root of
\* ALL_ROOTS, a noun for the bare form and a further noun that is a definite
\* or plural form
C25_NounInflection_AsStated ==
  (gen_lang # None /\ gen_root \in Range(ALL_ROOTS)) =>
    (HasBareNoun /\ HasInflectedNoun)

\* C25: for every root of ALL_ROOTS the Asturian and the Basque generator
\* return a noun for the bare form and at least one further noun that is a
\* definite or plural form; the Greek generator returns the bare root as a
\* noun and, for a root with a transliteration, the transliterated noun, and
\* no definite or plural form.
C25_NounInflection ==
  (gen_lang # None /\ gen_root \in Range(ALL_ROOTS)) =>
    /\ HasBareNoun
    /\ gen_lang \in {"ast", "eu"} => HasInflectedNoun
    /\ gen_lang = "el" =>
         NounSeeds =
           << MakeSeed("el", gen_root, gen_root, TypeTag("cs_latin_raw"), "NOUN") >>
           \o (IF TransMapGet(gen_root) # <<>>
               THEN << MakeSeed("el", TransMapGet(gen_root), gen_root,
                                TypeTag("noun_transliterated"), "NOUN") >>
               ELSE <<>>)

\* C25 witness: the Basque generator was called on a root of ALL_ROOTS whose
\* definite form is not the root with a suffix (click, klika, klikak)
C25_Witness ==
  /\ gen_lang = "eu" /\ gen_root = W_click
  /\ HasBareNoun /\ HasInflectedNoun
  /\ \E i \in DOMAIN NounSeeds : NounSeeds[i].term = W_klik \o <<"a">>

\* C26: for a root that is not empty, the list generate_for_root returns
\* holds no seed with an empty term and no two seeds with the same term.
C26_NoEmptyNoDuplicateTerm ==
  (gen_lang # None /\ gen_root # <<>>) =>
    /\ \A i \in DOMAIN H : H[i].term # <<>>
    /\ \A i, j \in DOMAIN H : i # j => H[i].term # H[j].term

\* C26 witness: the Basque generator was called on "data", a root that ends
\* in -a, and returned the term "data" as noun_raw and as noun_integrated_sg
C26_Witness ==
  /\ gen_lang = "eu" /\ gen_root = W_data
  /\ H[1].term = W_data /\ H[1].type = TypeTag("noun_raw")
  /\ H[2].term = W_data /\ H[2].type = TypeTag("noun_integrated_sg")

(* ------------------------------------------------------------------ *)
(* The generated types in the classifiers of the analysis             *)
(* ------------------------------------------------------------------ *)

INTEGRATION_LEVELS ==
  {"1. Unintegrated", "2. Accommodated (light verb)", "3. Highly integrated"}

\* C27: every type a generator attaches to a seed is mapped by
\* _map_integration to one of the three integration levels, none to "Other".
C27_TypeCoverage ==
  \A i \in DOMAIN H : MapIntegration(H[i].type) \in INTEGRATION_LEVELS

\* C27 witness: a Greek call on an action root with a transliteration, whose
\* seeds fall into all three levels, verb_morph_aro and verb_participle in
\* the third
C27_Witness ==
  /\ gen_lang = "el"
  /\ { MapIntegration(H[i].type) : i \in DOMAIN H } = INTEGRATION_LEVELS
  /\ \E i, j \in DOMAIN H :
       /\ H[i].type = TypeTag("verb_morph_aro")
       /\ H[j].type = TypeTag("verb_participle")

\* C28: for a root of ALL_ROOTS, every returned seed whose type
\* _map_spelling classifies as "Retained (foreignization)" has a term that
\* contains the root verbatim.
C28_SpellingFidelity ==
  (gen_lang # None /\ gen_root \in Range(ALL_ROOTS)) =>
    \A i \in DOMAIN H :
      MapSpelling(H[i].type) = "Retained (foreignization)"
        => Contains(H[i].term, gen_root)

\* C28 witness: the Basque generator was called on "click" and returned the
\* light verb "klik egin", a type classified as retained
C28_Witness ==
  /\ gen_lang = "eu" /\ gen_root = W_click
  /\ \E i \in DOMAIN H :
       /\ H[i].term = W_klik \o <<" ", "e", "g", "i", "n">>
       /\ MapSpelling(H[i].type) = "Retained (foreignization)"
       /\ ~Contains(H[i].term, gen_root)

(* ------------------------------------------------------------------ *)
(* The rules of is_english against each other                         *)
(* ------------------------------------------------------------------ *)

\* is_english with its short-sentence rule (line 31) taken out
IsEnglishWithoutShortRule(sentence) ==
  LET text == Lower(sentence)
      words == FindAllWords(text)
  IN  /\ words # <<>>
      /\ \/ HasMarker(text, words)
         \/ DensityExceedsThreshold(EnglishCount(words), Len(words))

\* C29: at the threshold 0.25 a sentence with fewer than 6 tokens and at
\* least 2 stopword tokens has a stopword density above the threshold, so
\* is_english returns what it would return without the short-sentence rule.
C29_ShortRuleSubsumed ==
  eng_pc = "return" =>
    /\ RuleB(arg_sentence)
         => DensityExceedsThreshold(Stopwords(arg_sentence), Len(Tokens(arg_sentence)))
    /\ is_english_ret = IsEnglishWithoutShortRule(arg_sentence)

\* C29 witness: five tokens, two of them stopwords, no marker: the short
\* rule applies, the density is 2/5, the sentence is flagged
C29_Witness ==
  /\ eng_pc = "return"
  /\ Len(Tokens(arg_sentence)) = 5 /\ Stopwords(arg_sentence) = 2
  /\ RuleB(arg_sentence)
  /\ ~HasMarker(Lower(arg_sentence), Tokens(arg_sentence))
  /\ is_english_ret = TRUE

\* C30: a sentence from which the tokenizer extracts no token is not
\* flagged by is_english, whatever it contains: the test for no tokens comes
\* before the marker rules and the density rule.
C30_NoTokenNeverFlagged ==
  (eng_pc = "return" /\ FindAllWords(Lower(arg_sentence)) = <<>>)
    => is_english_ret = FALSE

\* C30 witness: a sentence of Greek script and "references2", which holds
\* the marker "references" and gives no token, was not flagged
C30_Witness ==
  /\ eng_pc = "return"
  /\ FindAllWords(Lower(arg_sentence)) = <<>>
  /\ Contains(arg_sentence, <<"gr_kappa", "gr_alpha", "gr_iota">>)
  /\ Contains(Lower(arg_sentence), W_references)
  /\ is_english_ret = FALSE
====
